---- MODULE Spec2Model ----
(***************************************************************************)
(* Model of the yab measurement protocol: the parent process that runs     *)
(* each benchmark under cachegrind (calibration, baseline and full         *)
(* children), subtracts the stats, publishes the output files by two       *)
(* renames and reports the result; the semaphore bounding the parallel     *)
(* jobs; the print mode that reads the published files.                    *)
(***************************************************************************)
EXTENDS Integers, Sequences, FiniteSets, TLC

(* ------------------------------ bounds --------------------------------- *)

\* Number of benchmarks registered by the benchmark binary, in this order.
NumBenches == 3
\* Number of measuring parent processes run in one output directory when one
\* benchmark is selected by an exact filter (every benchmark is measured
\* together in one measuring process).
MaxRuns == 3
\* Largest value of the `--jobs` option.
MaxJobs == 2

Benches == 1..NumBenches
\* The absent value of an optional string and of an optional record.
None == "none"
Nothing == [nothing |-> TRUE]

(* -------------------- cachegrind.rs: the stats model ------------------- *)

\* u64::saturating_sub
SaturatingSub(a, b) == IF a >= b THEN a - b ELSE 0

DataPoint(t, l1, l3) == [total |-> t, l1_misses |-> l1, l3_misses |-> l3]

DataPointAdd(a, b) ==
    [total |-> a.total + b.total,
     l1_misses |-> a.l1_misses + b.l1_misses,
     l3_misses |-> a.l3_misses + b.l3_misses]

DataPointSub(a, b) ==
    [total |-> SaturatingSub(a.total, b.total),
     l1_misses |-> SaturatingSub(a.l1_misses, b.l1_misses),
     l3_misses |-> SaturatingSub(a.l3_misses, b.l3_misses)]

DataPointMul(a, k) ==
    [total |-> a.total * k,
     l1_misses |-> a.l1_misses * k,
     l3_misses |-> a.l3_misses * k]

FullStats(i, r, w) == [instructions |-> i, data_reads |-> r, data_writes |-> w]

FullAdd(a, b) ==
    [instructions |-> DataPointAdd(a.instructions, b.instructions),
     data_reads |-> DataPointAdd(a.data_reads, b.data_reads),
     data_writes |-> DataPointAdd(a.data_writes, b.data_writes)]

FullSub(a, b) ==
    [instructions |-> DataPointSub(a.instructions, b.instructions),
     data_reads |-> DataPointSub(a.data_reads, b.data_reads),
     data_writes |-> DataPointSub(a.data_writes, b.data_writes)]

\* `data_writes` is computed from `self.data_reads`, as in the source.
FullMul(a, k) ==
    [instructions |-> DataPointMul(a.instructions, k),
     data_reads |-> DataPointMul(a.data_reads, k),
     data_writes |-> DataPointMul(a.data_reads, k)]

FullIsZero(a) ==
    a.instructions.total = 0 /\ a.data_reads.total = 0 /\ a.data_writes.total = 0

\* CachegrindStats: Simple { instructions } | Full(FullCachegrindStats)
Simple(n) == [kind |-> "Simple", instructions |-> n]
Full(f) == [kind |-> "Full", full |-> f]

total_instructions(s) ==
    IF s.kind = "Simple" THEN s.instructions ELSE s.full.instructions.total

StatsAdd(a, b) ==
    IF a.kind = "Full" /\ b.kind = "Full"
    THEN Full(FullAdd(a.full, b.full))
    ELSE Simple(total_instructions(a) + total_instructions(b))

StatsSub(a, b) ==
    IF a.kind = "Full" /\ b.kind = "Full"
    THEN Full(FullSub(a.full, b.full))
    ELSE Simple(SaturatingSub(total_instructions(a), total_instructions(b)))

StatsIsZero(s) ==
    IF s.kind = "Simple" THEN s.instructions = 0 ELSE FullIsZero(s.full)

\* CachegrindStats::default()
StatsDefault == Full(FullStats(DataPoint(0, 0, 0), DataPoint(0, 0, 0), DataPoint(0, 0, 0)))

\* CachegrindOutput { summary, breakdown }; the breakdown is a map from
\* function to stats, here a TLA+ function.
EmptyMap == [x \in {} |-> Nothing]
CachegrindOutput(s, bd) == [summary |-> s, breakdown |-> bd]

\* A subtraction that keeps every function of the left-hand side.
OutputSubKeepingZero(lhs, rhs) ==
    LET diff(f) == IF f \in DOMAIN rhs.breakdown
                   THEN StatsSub(lhs.breakdown[f], rhs.breakdown[f])
                   ELSE lhs.breakdown[f]
    IN  [summary |-> StatsSub(lhs.summary, rhs.summary),
         breakdown |-> [f \in DOMAIN lhs.breakdown |-> diff(f)]]

\* impl Sub for CachegrindOutput
OutputSub(lhs, rhs) ==
    LET diff(f) == IF f \in DOMAIN rhs.breakdown
                   THEN StatsSub(lhs.breakdown[f], rhs.breakdown[f])
                   ELSE lhs.breakdown[f]
        kept == {f \in DOMAIN lhs.breakdown : ~StatsIsZero(diff(f))}
    IN  [summary |-> StatsSub(lhs.summary, rhs.summary),
         breakdown |-> [f \in kept |-> diff(f)]]

(* ---------------- cachegrind.rs: parsing an output file ---------------- *)

NineEvents == <<"Ir", "I1mr", "ILmr", "Dr", "D1mr", "DLmr", "Dw", "D1mw", "DLmw">>

Ok(v) == [ok |-> TRUE, value |-> v]
Err == [ok |-> FALSE]

\* events.iter().zip(numbers).collect::<HashMap<_, _>>(): a repeated event
\* keeps the last number.
SummaryByEvent(events, nums) ==
    LET n == IF Len(events) <= Len(nums) THEN Len(events) ELSE Len(nums)
        last(e) == CHOOSE i \in 1..n :
                       events[i] = e /\ \A j \in (i + 1)..n : events[j] # e
    IN  [e \in {events[i] : i \in 1..n} |-> nums[last(e)]]

\* FullCachegrindStats::read
FullRead(m) ==
    IF {NineEvents[i] : i \in 1..9} \subseteq DOMAIN m
    THEN Ok(FullStats(DataPoint(m["Ir"], m["I1mr"], m["ILmr"]),
                      DataPoint(m["Dr"], m["D1mr"], m["DLmr"]),
                      DataPoint(m["Dw"], m["D1mw"], m["DLmw"])))
    ELSE Err

\* The `Simple` / `Full` choice made for the summary and for each data row.
StatsRead(m) ==
    IF Cardinality(DOMAIN m) = 1
    THEN IF "Ir" \in DOMAIN m THEN Ok(Simple(m["Ir"])) ELSE Err
    ELSE LET f == FullRead(m) IN IF f.ok THEN Ok(Full(f.value)) ELSE Err

\* The per-function breakdown accumulated from the data rows; a row is
\* [function, nums] (the leading offset of the row is dropped).
RECURSIVE BreakdownRead(_, _, _)
BreakdownRead(events, rows, acc) ==
    IF rows = <<>> THEN Ok(acc)
    ELSE LET row == Head(rows) IN
         IF Len(row.nums) # Len(events) THEN Err
         ELSE LET st == StatsRead(SummaryByEvent(events, row.nums)) IN
              IF ~st.ok THEN Err
              ELSE LET old == IF row.function \in DOMAIN acc
                              THEN acc[row.function] ELSE StatsDefault
                       new == [f \in DOMAIN acc \cup {row.function} |->
                                  IF f = row.function THEN StatsAdd(old, st.value)
                                  ELSE acc[f]]
                   IN  BreakdownRead(events, Tail(rows), new)

\* CachegrindOutput::read.  A file text is [cmd, lines, events, rows, summary],
\* where `lines` tells which of the events and summary lines are there.
CachegrindOutputRead(text) ==
    IF ~({"events", "summary"} \subseteq text.lines) THEN Err
    ELSE LET bd == BreakdownRead(text.events, text.rows, EmptyMap) IN
         IF ~bd.ok THEN Err
         ELSE IF Len(text.events) # Len(text.summary) THEN Err
         ELSE LET st == StatsRead(SummaryByEvent(text.events, text.summary)) IN
              IF ~st.ok THEN Err
              ELSE Ok(CachegrindOutput(st.value, bd.value))

(* ------------- cachegrind.rs: running a child under the simulator ------ *)

\* A captured stream is a sequence of tokens; these tokens are whitespace.
Whitespace == {" ", "\n"}

RECURSIVE TrimStart(_)
TrimStart(s) == IF s # <<>> /\ Head(s) \in Whitespace THEN TrimStart(Tail(s)) ELSE s

RECURSIVE TrimEnd(_)
TrimEnd(s) ==
    IF s # <<>> /\ s[Len(s)] \in Whitespace THEN TrimEnd(SubSeq(s, 1, Len(s) - 1)) ELSE s

\* str::trim
Trim(s) == TrimEnd(TrimStart(s))

\* ExitStatus::success
success(status) == status = "exit status: 0"

\* An ExecFailure that keeps the status only.
ExecFailureStatusOnly(output) ==
    [kind |-> "ExecFailure", status |-> output.status, stdout |-> <<>>, stderr |-> <<>>]

\* ExecFailure::new
ExecFailureNew(output) ==
    [kind |-> "ExecFailure", status |-> output.status,
     stdout |-> Trim(output.stdout), stderr |-> Trim(output.stderr)]

\* Display of CachegrindError (and of the ExecFailure in it): the message
\* handed to the logger.
ErrorMessage(error) ==
    IF error.kind = "ExecFailure"
    THEN <<"cachegrind exited abnormally", error.status>>
         \o (IF error.stdout # <<>>
             THEN <<"---- cachegrind stdout ----">> \o error.stdout ELSE <<>>)
         \o (IF error.stderr # <<>>
             THEN <<"---- cachegrind stderr ----">> \o error.stderr ELSE <<>>)
    ELSE IF error.kind = "Read" THEN <<"I/O error reading cachegrind output">>
    ELSE <<"Failed parsing cachegrind output">>

\* spawn_instrumented after `command.output()` returned `output`, with the
\* file `file` at out_path ([absent |-> TRUE] when there is none).
spawn_instrumented(output, file) ==
    IF ~success(output.status) THEN [ok |-> FALSE, error |-> ExecFailureNew(output)]
    ELSE IF file = [absent |-> TRUE] THEN [ok |-> FALSE, error |-> [kind |-> "Read"]]
    ELSE LET r == CachegrindOutputRead(file.text) IN
         IF r.ok THEN r ELSE [ok |-> FALSE, error |-> [kind |-> "Parse"]]

(* --------------- mock-cachegrind.rs: the simulated simulator ----------- *)

CONST_OVERHEAD ==
    FullStats(DataPoint(1000, 50, 0), DataPoint(250, 50, 0), DataPoint(100, 10, 0))

ITER_OVERHEAD ==
    FullStats(DataPoint(100, 10, 0), DataPoint(25, 5, 0), DataPoint(10, 0, 0))

Profiles == {"main", "cmp"}

\* AllStats::load: the sampled stats of one benchmark body.  The `cmp`
\* profile redefines benchmark 1 only; other benchmarks fall back to the
\* default profile.
DefaultBaseline ==
    [b \in Benches |->
        IF b = 1
        THEN FullStats(DataPoint(3800, 40, 4), DataPoint(900, 30, 3), DataPoint(500, 20, 2))
        ELSE FullStats(DataPoint(300 + b, 6, 1), DataPoint(70, 4, 1), DataPoint(90, 2, 0))]

CmpBaseline ==
    [b \in {1} |->
        FullStats(DataPoint(3900, 44, 4), DataPoint(910, 30, 5), DataPoint(480, 20, 2))]

\* The breakdown baseline: per-function stats of benchmark 1.
BreakdownBaseline ==
    [b \in {1} |->
        [f \in {"fib", "edge", "noise"} |->
            IF f = "fib"
            THEN FullStats(DataPoint(3000, 30, 3), DataPoint(800, 20, 2), DataPoint(400, 10, 1))
            ELSE FullStats(DataPoint(IF f = "edge" THEN 3 ELSE 2, 0, 0), DataPoint(0, 0, 0),
                           DataPoint(0, 0, 0))]]

\* AllStats::get
AllStatsGet(bench, prof) ==
    IF prof = "cmp" /\ bench \in DOMAIN CmpBaseline
    THEN CmpBaseline[bench]
    ELSE DefaultBaseline[bench]

FullToNums(f) ==
    <<f.instructions.total, f.instructions.l1_misses, f.instructions.l3_misses,
      f.data_reads.total, f.data_reads.l1_misses, f.data_reads.l3_misses,
      f.data_writes.total, f.data_writes.l1_misses, f.data_writes.l3_misses>>

RECURSIVE SetToSeq(_)
SetToSeq(S) ==
    IF S = {} THEN <<>>
    ELSE LET x == CHOOSE y \in S : TRUE IN <<x>> \o SetToSeq(S \ {x})

\* main() of the mock: the text of the output file it writes for a child
\* started with `--cachegrind-instrument <iter_count> <+|-> <bench>`.
MockCachegrind(bench, prof, iter_count, is_baseline) ==
    LET bench_stats == AllStatsGet(bench, prof)
        linear == FullAdd(FullAdd(FullMul(bench_stats, iter_count - 1), CONST_OVERHEAD),
                          FullMul(ITER_OVERHEAD, iter_count))
        full_stats == IF is_baseline THEN linear ELSE FullAdd(linear, bench_stats)
        fns == IF ~is_baseline /\ bench \in DOMAIN BreakdownBaseline
               THEN DOMAIN BreakdownBaseline[bench] ELSE {}
        fnSeq == SetToSeq(fns)
    IN  [cmd |-> [iterations |-> iter_count, is_baseline |-> is_baseline],
         lines |-> {"events", "summary"},
         events |-> NineEvents,
         rows |-> [i \in 1..Len(fnSeq) |->
                      [function |-> fnSeq[i],
                       nums |-> FullToNums(BreakdownBaseline[bench][fnSeq[i]])]],
         summary |-> FullToNums(full_stats)]

\* What is left of an output file whose writer was killed: no summary line.
PartialText ==
    [cmd |-> [iterations |-> 0, is_baseline |-> FALSE], lines |-> {"events"},
     events |-> NineEvents, rows |-> <<>>, summary |-> <<>>]

\* Children that make spawn_instrumented fail: the panic the mock emulates
\* (nothing is written), a client that exits with a failure after the
\* simulator wrote a complete output file, a simulator that leaves a
\* truncated file, and one that leaves no file.
FailedChildren ==
    { [status |-> "exit status: 101", stdout |-> <<>>,
       stderr |-> <<"\n", "panicked at", "emulated panic!", "\n">>, wrote |-> "none"],
      [status |-> "exit status: 101", stdout |-> <<"note", " ">>,
       stderr |-> <<>>, wrote |-> "valid"],
      [status |-> "exit status: 0", stdout |-> <<>>, stderr |-> <<>>, wrote |-> "partial"],
      [status |-> "exit status: 0", stdout |-> <<>>, stderr |-> <<>>, wrote |-> "none"] }

(* ------------------------ benchmark identifiers ------------------------ *)

\* The benchmarks of the binary.  Benchmark 1 is declared with `bench` (one
\* unnamed capture); all the others are the captures of one benchmark
\* declared with `bench_with_captures`, in the order of its capture names.
CaptureNames == <<"gen", "sum", "drain", "outer", "collect">>

capture_name(b) == IF b = 1 THEN "" ELSE CaptureNames[b - 1]

\* Display of a BenchmarkId without a capture: `name` or `name/args`; a text
\* is the sequence of its segments.
DisplayId(id) == <<id.name>> \o (IF id.args = None THEN <<>> ELSE <<id.args>>)

\* BenchmarkId::to_string: the capture, if any, is the last segment.
IdToString(id) == DisplayId(id) \o (IF id.capture = None THEN <<>> ELSE <<id.capture>>)

\* The id a benchmark is declared with, as MainBencher::bench receives it.
BenchId(b) ==
    IF b = 1 THEN [name |-> "fib", args |-> None, capture |-> None]
    ELSE [name |-> "rng", args |-> "10000", capture |-> None]

\* The id of the executor of one capture: `id.capture = Some(capture_name)`
\* unless the capture name is empty.
ExecutorId(b) ==
    IF capture_name(b) = "" THEN BenchId(b)
    ELSE [BenchId(b) EXCEPT !.capture = capture_name(b)]

\* The executors created by one call of MainBencher::bench.
Group(b) == {c \in Benches : BenchId(c) = BenchId(b)}

(* --------------------------- options.rs -------------------------------- *)

\* The (warm_up_instructions, max_iterations) pairs an invocation may use.
WarmUpConfigs ==
    { [warm_up_instructions |-> 1000000, max_iterations |-> 1000],
      [warm_up_instructions |-> 20000, max_iterations |-> 3],
      [warm_up_instructions |-> 4000, max_iterations |-> 1000] }

\* IdMatcher::Any, IdMatcher::Exact(text), IdMatcher::Regex(pattern)
AnyId == [kind |-> "Any", text |-> <<>>]
Exact(text) == [kind |-> "Exact", text |-> text]
Regex(pattern) == [kind |-> "Regex", text |-> pattern]

\* The filters of the measuring and printing processes: none, the exact id
\* of the plain benchmark, the exact id of the benchmark with captures.
IdMatchers == {AnyId, Exact(<<"fib">>), Exact(<<"rng", "10000">>)}

\* Regex::is_match for a pattern of literal segments: the pattern occurs
\* somewhere in the text.
is_match(pattern, text) ==
    \E i \in 1..(Len(text) + 1) :
        /\ i + Len(pattern) - 1 <= Len(text)
        /\ SubSeq(text, i, i + Len(pattern) - 1) = pattern

\* IdMatcher::matches
matches(id_matcher, id) ==
    IF id_matcher.kind = "Any" THEN TRUE
    ELSE IF id_matcher.kind = "Exact" THEN id_matcher.text = IdToString(id)
    ELSE is_match(id_matcher.text, IdToString(id))

\* `--threshold`, a ratio; the default is 0.05.
DefaultThreshold == [num |-> 5, den |-> 100]

(* --------------------------- bencher.rs -------------------------------- *)

Clamp(x, lo, hi) == IF x < lo THEN lo ELSE IF x > hi THEN hi ELSE x

\* A runner that forgets the lower end of the clamp.
EstimatedIterationsUpperOnly(warm_up_instructions, total, max_iterations) ==
    IF warm_up_instructions \div total > max_iterations THEN max_iterations
    ELSE warm_up_instructions \div total

\* estimated_iterations of run_benchmark
EstimatedIterations(warm_up_instructions, total, max_iterations) ==
    Clamp(warm_up_instructions \div total, 1, max_iterations)

\* A runner that starts the full child without the extra iteration.
FullIterationsAsEstimated(estimated_iterations) == estimated_iterations

\* A runner that starts the baseline child without the extra iteration.
BaselineIterationsAsEstimated(estimated_iterations) == estimated_iterations

\* `iterations` of the baseline child and of the full child
BaselineIterations(estimated_iterations) == estimated_iterations + 1
FullIterations(estimated_iterations) == estimated_iterations + 1

\* A runner whose calibration and baseline children write to the final path.
BaselinePathFinal(b) == <<b, "baseline.cachegrind">>

\* Paths of one benchmark in the output directory.
baseline_path(b) == <<b, "baseline.cachegrind~">>
full_path(b) == <<b, "cachegrind~">>
final_baseline_path(b) == <<b, "baseline.cachegrind">>
final_full_path(b) == <<b, "cachegrind">>
old_baseline_path(b) == <<b, "baseline.cachegrind.old">>
old_full_path(b) == <<b, "cachegrind.old">>

\* backup_path.set_extension("{current_extension}.old")
BackupPath(path) ==
    IF path[2] = "baseline.cachegrind" THEN old_baseline_path(path[1])
    ELSE old_full_path(path[1])

Paths ==
    UNION {{baseline_path(b), full_path(b), final_baseline_path(b),
            final_full_path(b), old_baseline_path(b), old_full_path(b)} : b \in Benches}

NoFile == [absent |-> TRUE]

\* A named baseline file requested with `--baseline`: the benchmark fib was
\* at 3750 instructions, rng/10000/gen at 200 and rng/10000/sum at 400.
NamedBaseline ==
    [t \in {<<"fib">>, <<"rng", "10000", "gen">>, <<"rng", "10000", "sum">>} |->
        CachegrindOutput(
            Full(FullStats(DataPoint(IF t = <<"fib">> THEN 3750
                                     ELSE IF t = <<"rng", "10000", "gen">> THEN 200 ELSE 400,
                                     4, 1),
                           DataPoint(70, 4, 1), DataPoint(90, 2, 0))),
            EmptyMap)]

\* The named baseline file, a JSON map from id to stats as BaselineSaver
\* writes it, in a process that has not read it.
Unread(file) == [file |-> file, cell |-> Nothing, reads |-> 0]

\* The cell while its initializer runs: other callers of get_or_init block.
Loading == [loading |-> TRUE]

\* A runner that loads the named baseline at every request.
EnsureBaselineReloading(named) == [named EXCEPT !.cell = named.file, !.reads = @ + 1]

\* ensure_baseline: OnceLock::get_or_init(|| load_baseline(..)) reads the file
\* when the cell is empty and leaves a filled cell as it is.
EnsureBaseline(named) ==
    IF named.cell = Nothing THEN [named EXCEPT !.cell = named.file, !.reads = @ + 1]
    ELSE named

\* ensure_baseline(path).get(&id.to_string()).cloned()
BaselineGet(baseline, id) ==
    IF IdToString(id) \in DOMAIN baseline THEN baseline[IdToString(id)] ELSE Nothing

(* ------------------------------ state ---------------------------------- *)

VARIABLES
    options,      \* BenchOptions: warm_up_instructions, max_iterations, jobs, baseline,
                  \* id_matcher
    fs,           \* the output directory: path -> file or NoFile
    run,          \* number of measuring parent processes started so far
    mode,         \* BenchMode of the running parent process, None if there is none
    profile,      \* the profile the simulator samples the benchmark bodies from
    next,         \* index of the benchmark the main thread registers next
    job,          \* per benchmark: the state of its CachegrindRunner
    permits,      \* Semaphore::permits
    events,       \* per benchmark: the reporter / logger events delivered so far
    output,       \* per benchmark: the BenchmarkOutput passed to `ok`
    reported,     \* the benchmarks in the order of their `ok` events
    lastCurrent,  \* per benchmark: `stats` published by the last completed measurement
    dirty,        \* per benchmark: final files changed by a measurement that never reported
    calc,         \* the last evaluation of a pure function, Nothing if there is none
    exit,         \* how the last parent process ended, Nothing before it did
    regressed_benches, \* RegressionChecker::regressed_benches of the running process
    saver_stats,  \* BaselineSaver::stats of the running process
    saved,        \* the named baseline file the last process wrote, NoFile if none
    should_fail,  \* BenchModeData::Test::should_fail
    named_baseline \* the file of `--baseline`, the OnceLock<Baseline> of the running
                  \* process (Nothing while it is empty) and the reads of the file

vars == <<options, fs, run, mode, profile, next, job, permits, events, output,
          reported, lastCurrent, dirty, calc, exit, regressed_benches, saver_stats,
          saved, should_fail, named_baseline>>

IdleJob ==
    [pc |-> "idle", permit |-> FALSE, prev_stats |-> Nothing, old_baseline |-> Nothing,
     calibration |-> 0, estimated_iterations |-> 0, baseline |-> Nothing, stats |-> Nothing,
     child |-> Nothing, error |-> Nothing]

File(text) == [run |-> run, text |-> text]

AllOptions ==
                   {[warm_up_instructions |-> c.warm_up_instructions,
                     max_iterations |-> c.max_iterations,
                     jobs |-> j, baseline |-> nb, id_matcher |-> m,
                     threshold |-> DefaultThreshold, save_baseline |-> FALSE,
                     breakdown |-> FALSE] :
                        c \in WarmUpConfigs, j \in 1..MaxJobs, nb \in BOOLEAN,
                        m \in IdMatchers}

\* The state before the first parent process, with an empty output directory.
Fresh ==
    /\ fs = [p \in Paths |-> NoFile]
    /\ run = 0
    /\ mode = None
    /\ profile = "main"
    /\ next = 1
    /\ job = [b \in Benches |-> IdleJob]
    /\ permits = options.jobs
    /\ events = [b \in Benches |-> <<>>]
    /\ output = [b \in Benches |-> Nothing]
    /\ reported = <<>>
    /\ lastCurrent = [b \in Benches |-> Nothing]
    /\ dirty = [b \in Benches |-> FALSE]
    /\ calc = Nothing
    /\ exit = Nothing
    /\ regressed_benches = <<>>
    /\ saver_stats = EmptyMap
    /\ saved = NoFile
    /\ should_fail = FALSE
    /\ named_baseline = Unread([stats |-> NamedBaseline])

Init == options \in AllOptions /\ Fresh

(* ------------------------- utils.rs: Semaphore -------------------------- *)

\* Semaphore::capacity: the number of permits the semaphore was created with.
capacity == options.jobs

(* ----------------------- the parent process ---------------------------- *)

\* `self.id_matcher.matches(id)` at the head of MainBencher::bench, for the
\* benchmark that executor b belongs to.
Selected(b) == matches(options.id_matcher, BenchId(b))

\* The number of measuring processes explored with the options at hand:
\* several when the filter selects one executor, one otherwise.
RunLimit == IF Cardinality({b \in Benches : Selected(b)}) = 1 THEN MaxRuns ELSE 1

\* A parent process is started in mode m with the simulator profile p.
StartProcess(m, p) ==
    /\ mode = None
    /\ m = "bench" => run < RunLimit
    /\ run' = IF m = "bench" THEN run + 1 ELSE run
    /\ mode' = m
    /\ profile' = p
    /\ next' = 1
    /\ job' = [b \in Benches |-> IdleJob]
    /\ permits' = options.jobs
    /\ events' = [b \in Benches |-> <<>>]
    /\ output' = [b \in Benches |-> Nothing]
    /\ reported' = <<>>
    /\ exit' = Nothing
    /\ regressed_benches' = <<>>
    /\ saver_stats' = EmptyMap
    /\ saved' = NoFile
    /\ should_fail' = FALSE
    /\ UNCHANGED <<options, named_baseline, calc, fs, lastCurrent, dirty>>

\* What the end of the parent process leaves behind.
ProcessEnd ==
    /\ mode' = None
    /\ next' = 1
    /\ job' = [b \in Benches |-> IdleJob]
    /\ permits' = options.jobs
    /\ events' = [b \in Benches |-> <<>>]
    /\ output' = [b \in Benches |-> Nothing]
    /\ reported' = <<>>
    /\ dirty' = [b \in Benches |->
                   dirty[b] \/ (mode = "bench" /\ job[b].pc \in {"rename_full", "ok"})]
    /\ regressed_benches' = <<>>
    /\ saver_stats' = EmptyMap
    /\ should_fail' = FALSE
    /\ named_baseline' = Unread(named_baseline.file)
    /\ UNCHANGED <<options, calc, run, profile, lastCurrent>>

\* MainBencher::bench returns at once for a benchmark the filter leaves out.
Skip(b) ==
    /\ mode # None
    /\ next = b
    /\ ~Selected(b)
    /\ next' = b + Cardinality(Group(b))
    /\ UNCHANGED <<options, named_baseline, calc, exit, regressed_benches, saver_stats, saved, should_fail, fs, run, mode, profile, job, permits, events, output,
                   reported, lastCurrent, dirty>>

\* A test run that stops at the first panic.
TestStopping(b, panics) ==
    /\ mode = "test"
    /\ next = b
    /\ Selected(b)
    /\ events' = [events EXCEPT ![b] = <<"test", IF panics THEN "fail" ELSE "ok">>]
    /\ should_fail' = (should_fail \/ panics)
    /\ next' = IF panics THEN NumBenches + 1 ELSE b + Cardinality(Group(b))
    /\ UNCHANGED <<options, named_baseline, calc, exit, regressed_benches, saver_stats, saved, fs, run, mode,
                   profile, job, permits, output, reported, lastCurrent, dirty>>

\* MainBencher::bench in the Test mode, for the benchmark that starts at
\* executor b: the test reporter is created, the closure is run once with
\* no-op captures (one per capture name) under catch_unwind, and the
\* reporter gets `fail` (with should_fail set) or `ok`.
Test(b, panics) ==
    /\ mode = "test"
    /\ next = b
    /\ Selected(b)
    /\ events' = [events EXCEPT ![b] = <<"test", IF panics THEN "fail" ELSE "ok">>]
    /\ should_fail' = (should_fail \/ panics)
    /\ next' = b + Cardinality(Group(b))
    /\ UNCHANGED <<options, named_baseline, calc, exit, regressed_benches, saver_stats, saved, fs, run, mode,
                   profile, job, permits, output, reported, lastCurrent, dirty>>

\* A bencher that creates the runner of a listed benchmark.
ListRunning(b) ==
    /\ mode = "list"
    /\ next = b
    /\ Selected(b)
    /\ events' = [events EXCEPT ![b] = <<"list">>]
    /\ job' = [job EXCEPT ![b].pc = "prev_stats"]
    /\ next' = b + Cardinality(Group(b))
    /\ UNCHANGED <<options, named_baseline, calc, exit, regressed_benches, saver_stats, saved,
                   should_fail, fs, run, mode, profile, permits, output, reported,
                   lastCurrent, dirty>>

\* MainBencher::bench in the List mode, for the benchmark that starts at
\* executor b: PrintingReporter::report_list_item(id) prints the id.
List(b) ==
    /\ mode = "list"
    /\ next = b
    /\ Selected(b)
    /\ events' = [events EXCEPT ![b] = <<"list">>]
    /\ next' = b + Cardinality(Group(b))
    /\ UNCHANGED <<options, named_baseline, calc, exit, regressed_benches, saver_stats, saved,
                   should_fail, fs, run, mode, profile, job, permits, output, reported,
                   lastCurrent, dirty>>

\* A bencher that spawns a thread whatever the capacity is.
RegisterThreaded(b) ==
    /\ mode = "bench"
    /\ next = b
    /\ Selected(b)
    /\ job[b].pc = "idle"
    /\ job' = [job EXCEPT ![b].pc = "acquire"]
    /\ next' = b + 1
    /\ UNCHANGED <<options, named_baseline, calc, exit, regressed_benches, saver_stats, saved, should_fail, fs, run, mode, profile, permits, events, output,
                   reported, lastCurrent, dirty>>

\* MainBencher::bench in the Bench mode: run the executor synchronously when
\* there is one job, spawn a thread for it otherwise.
Register(b) ==
    /\ mode = "bench"
    /\ next = b
    /\ Selected(b)
    /\ job[b].pc = "idle"
    /\ IF capacity = 1
       THEN /\ job' = [job EXCEPT ![b].pc = "prev_stats"]
            /\ UNCHANGED next
       ELSE /\ job' = [job EXCEPT ![b].pc = "acquire"]
            /\ next' = b + 1
    /\ UNCHANGED <<options, named_baseline, calc, exit, regressed_benches, saver_stats, saved, should_fail, fs, run, mode, profile, permits, events, output,
                   reported, lastCurrent, dirty>>

\* A semaphore that takes a permit without waiting for one.
AcquireUnchecked(b) ==
    /\ mode = "bench"
    /\ job[b].pc = "acquire"
    /\ permits' = permits - 1
    /\ job' = [job EXCEPT ![b].pc = "prev_stats", ![b].permit = TRUE]
    /\ UNCHANGED <<options, named_baseline, calc, exit, regressed_benches, saver_stats, saved, should_fail, fs, run, mode, profile, next, events, output,
                   reported, lastCurrent, dirty>>

\* Semaphore::acquire_owned: wait while there is no permit, then take one.
Acquire(b) ==
    /\ mode = "bench"
    /\ job[b].pc = "acquire"
    /\ IF permits = 0
       THEN /\ job' = [job EXCEPT ![b].pc = "waiting"]
            /\ UNCHANGED permits
       ELSE /\ permits' = permits - 1
            /\ job' = [job EXCEPT ![b].pc = "prev_stats", ![b].permit = TRUE]
    /\ UNCHANGED <<options, named_baseline, calc, exit, regressed_benches, saver_stats, saved, should_fail, fs, run, mode, profile, next, events, output,
                   reported, lastCurrent, dirty>>

\* Semaphore::release, first statement: the permit is returned.
Release(b) ==
    /\ mode = "bench"
    /\ job[b].pc = "release"
    /\ permits' = permits + 1
    /\ job' = [job EXCEPT ![b].pc = "notify", ![b].permit = FALSE]
    /\ UNCHANGED <<options, named_baseline, calc, exit, regressed_benches, saver_stats, saved, should_fail, fs, run, mode, profile, next, events, output,
                   reported, lastCurrent, dirty>>

Waiters == {w \in Benches : job[w].pc = "waiting"}

\* A release that returns the permit and wakes nobody.
NotifyLost(b) ==
    /\ mode = "bench"
    /\ job[b].pc = "notify"
    /\ job' = [job EXCEPT ![b].pc = "done"]
    /\ UNCHANGED <<options, named_baseline, calc, exit, regressed_benches, saver_stats, saved, should_fail, fs, run, mode, profile, next, permits, events, output,
                   reported, lastCurrent, dirty>>

\* Semaphore::release, second statement: cvar.notify_one() wakes one waiter,
\* which checks the permits again.
Notify(b) ==
    /\ mode = "bench"
    /\ job[b].pc = "notify"
    /\ IF Waiters = {}
       THEN job' = [job EXCEPT ![b].pc = "done"]
       ELSE \E w \in Waiters :
                job' = [job EXCEPT ![b].pc = "done", ![w].pc = "acquire"]
    /\ UNCHANGED <<options, named_baseline, calc, exit, regressed_benches, saver_stats, saved, should_fail, fs, run, mode, profile, next, permits, events, output,
                   reported, lastCurrent, dirty>>

(* ------------------- bencher.rs: CachegrindRunner ---------------------- *)

\* A loader that takes a missing or unreadable file for an empty output.
load_output_lenient(path) ==
    IF fs[path] # NoFile /\ CachegrindOutputRead(fs[path].text).ok
    THEN [value |-> CachegrindOutputRead(fs[path].text).value, warned |-> FALSE]
    ELSE [value |-> CachegrindOutput(Simple(0), EmptyMap), warned |-> FALSE]

\* CachegrindRunner::load_output: the parsed file, or Nothing when the file is
\* absent or does not parse (with a warning in the latter case).
load_output(path) ==
    IF fs[path] = NoFile THEN [value |-> Nothing, warned |-> FALSE]
    ELSE LET r == CachegrindOutputRead(fs[path].text) IN
         IF r.ok THEN [value |-> r.value, warned |-> FALSE]
         ELSE [value |-> Nothing, warned |-> TRUE]

\* A backup that moves the file instead of copying it.
BackupMove(f, path) == [f EXCEPT ![BackupPath(path)] = f[path], ![path] = NoFile]

\* fs::copy(path, backup_path) of load_and_backup_output
BackupCopy(f, path) == [f EXCEPT ![BackupPath(path)] = f[path]]

\* CachegrindRunner::load_and_backup_output: the file system it leaves.
load_and_backup_output(path) ==
    IF load_output(path).value # Nothing THEN BackupCopy(fs, path) ELSE fs

Warnings(loaded) == IF loaded.warned THEN <<"warn">> ELSE <<>>

\* fs::rename(from, to)
Rename(f, from, to) == [f EXCEPT ![to] = f[from], ![from] = NoFile]

\* cachegrind::spawn_instrumented with a child that exits successfully: the
\* file the simulator writes at out_path.
SpawnOutput(b, iterations, is_baseline) ==
    File(MockCachegrind(b, profile, iterations, is_baseline))

\* run_benchmark, `prev_stats` with `--baseline`: ensure_baseline(path).get(id)
StepEnsureBaseline(b) ==
    /\ mode = "bench"
    /\ job[b].pc = "prev_stats"
    /\ options.baseline
    /\ named_baseline.cell # Loading
    /\ EnsureBaseline(named_baseline).cell # NoFile
    /\ named_baseline' = EnsureBaseline(named_baseline)
    /\ job' = [job EXCEPT ![b].pc = "calibrate",
                          ![b].prev_stats =
                              BaselineGet(named_baseline'.cell.stats, ExecutorId(b))]
    /\ UNCHANGED <<options, calc, exit, regressed_benches, saver_stats, saved, should_fail, fs, run, mode, profile, next, permits, events, output,
                   reported, lastCurrent, dirty>>

\* run_benchmark, `prev_stats` without `--baseline`, first half:
\* load_and_backup_output(final_baseline_path)
StepBackupBaseline(b) ==
    /\ mode = "bench"
    /\ job[b].pc = "prev_stats"
    /\ ~options.baseline
    /\ LET old == load_output(final_baseline_path(b)) IN
       /\ fs' = load_and_backup_output(final_baseline_path(b))
       /\ events' = [events EXCEPT ![b] = @ \o Warnings(old)]
       /\ job' = [job EXCEPT ![b].old_baseline = old.value,
                             ![b].pc = IF old.value = Nothing THEN "calibrate"
                                       ELSE "backup_full"]
    /\ UNCHANGED <<options, named_baseline, calc, exit, regressed_benches, saver_stats, saved, should_fail, run, mode, profile, next, permits, output,
                   reported, lastCurrent, dirty>>

\* A runner that takes the previous full output for the previous stats.
StepBackupFullNoSub(b) ==
    /\ mode = "bench"
    /\ job[b].pc = "backup_full"
    /\ LET full == load_output(final_full_path(b)) IN
       /\ fs' = load_and_backup_output(final_full_path(b))
       /\ events' = [events EXCEPT ![b] = @ \o Warnings(full)]
       /\ job' = [job EXCEPT ![b].pc = "calibrate",
                             ![b].old_baseline = Nothing,
                             ![b].prev_stats = full.value]
    /\ UNCHANGED <<options, named_baseline, calc, exit, regressed_benches, saver_stats, saved, should_fail, run, mode, profile, next, permits, output,
                   reported, lastCurrent, dirty>>

\* second half: load_and_backup_output(final_full_path), then full - baseline
StepBackupFull(b) ==
    /\ mode = "bench"
    /\ job[b].pc = "backup_full"
    /\ LET full == load_output(final_full_path(b)) IN
       /\ fs' = load_and_backup_output(final_full_path(b))
       /\ events' = [events EXCEPT ![b] = @ \o Warnings(full)]
       /\ job' = [job EXCEPT ![b].pc = "calibrate",
                             ![b].old_baseline = Nothing,
                             ![b].prev_stats =
                                 IF full.value = Nothing THEN Nothing
                                 ELSE OutputSub(full.value, job[b].old_baseline)]
    /\ UNCHANGED <<options, named_baseline, calc, exit, regressed_benches, saver_stats, saved, should_fail, run, mode, profile, next, permits, output,
                   reported, lastCurrent, dirty>>

\* start_execution, the calibration child (iterations = 2, baseline) writing
\* to baseline_path, and the iteration estimate.
StepCalibrate(b) ==
    /\ mode = "bench"
    /\ job[b].pc = "calibrate"
    /\ 1 <= options.max_iterations
    /\ LET file == SpawnOutput(b, 2, TRUE)
           out == CachegrindOutputRead(file.text).value
           est == EstimatedIterations(options.warm_up_instructions,
                                      total_instructions(out.summary),
                                      options.max_iterations)
       IN  /\ fs' = [fs EXCEPT ![baseline_path(b)] = file]
           /\ events' = [events EXCEPT ![b] = Append(@, "start")]
           /\ job' = [job EXCEPT ![b].calibration = total_instructions(out.summary),
                                 ![b].estimated_iterations = est,
                                 ![b].baseline = IF est = 1 THEN out ELSE Nothing,
                                 ![b].pc = IF est = 1 THEN "full" ELSE "baseline"]
    /\ UNCHANGED <<options, named_baseline, calc, exit, regressed_benches, saver_stats, saved, should_fail, run, mode, profile, next, permits, output,
                   reported, lastCurrent, dirty>>

\* start_execution and the calibration child with max_iterations = 0:
\* clamp(1, 0) panics (Ord::clamp asserts min <= max) after the child wrote
\* its output.
StepCalibratePanics(b) ==
    /\ mode = "bench"
    /\ job[b].pc = "calibrate"
    /\ options.max_iterations < 1
    /\ fs' = [fs EXCEPT ![baseline_path(b)] = SpawnOutput(b, 2, TRUE)]
    /\ events' = [events EXCEPT ![b] = Append(@, "start")]
    /\ job' = [job EXCEPT ![b].pc = "panicked"]
    /\ UNCHANGED <<options, named_baseline, calc, exit, regressed_benches, saver_stats, saved, should_fail, run,
                   mode, profile, next, permits, output, reported, lastCurrent, dirty>>

\* the baseline child (iterations = estimated + 1, baseline), which
\* overwrites the calibration output
StepBaseline(b) ==
    /\ mode = "bench"
    /\ job[b].pc = "baseline"
    /\ LET file == SpawnOutput(b, BaselineIterations(job[b].estimated_iterations), TRUE) IN
       /\ fs' = [fs EXCEPT ![baseline_path(b)] = file]
       /\ job' = [job EXCEPT ![b].baseline = CachegrindOutputRead(file.text).value,
                             ![b].pc = "full"]
    /\ UNCHANGED <<options, named_baseline, calc, exit, regressed_benches, saver_stats, saved, should_fail, run, mode, profile, next, permits, events, output,
                   reported, lastCurrent, dirty>>

\* A runner that does not report the baseline.
StepFullUnreported(b) ==
    /\ mode = "bench"
    /\ job[b].pc = "full"
    /\ LET file == SpawnOutput(b, FullIterations(job[b].estimated_iterations), FALSE)
           full == CachegrindOutputRead(file.text).value
       IN  /\ fs' = [fs EXCEPT ![full_path(b)] = file]
           /\ job' = [job EXCEPT ![b].stats = OutputSub(full, job[b].baseline),
                                 ![b].baseline = Nothing,
                                 ![b].pc = "rename_baseline"]
    /\ UNCHANGED <<options, named_baseline, calc, exit, regressed_benches, saver_stats, saved, should_fail, run, mode, profile, next, permits, events, output,
                   reported, lastCurrent, dirty>>

\* baseline_computed, the full child (iterations = estimated + 1) writing to
\* full_path, and stats = full - baseline
StepFull(b) ==
    /\ mode = "bench"
    /\ job[b].pc = "full"
    /\ LET file == SpawnOutput(b, FullIterations(job[b].estimated_iterations), FALSE)
           full == CachegrindOutputRead(file.text).value
       IN  /\ fs' = [fs EXCEPT ![full_path(b)] = file]
           /\ events' = [events EXCEPT ![b] = Append(@, "baseline")]
           /\ job' = [job EXCEPT ![b].stats = OutputSub(full, job[b].baseline),
                                 ![b].baseline = Nothing,
                                 ![b].pc = "rename_baseline"]
    /\ UNCHANGED <<options, named_baseline, calc, exit, regressed_benches, saver_stats, saved, should_fail, run, mode, profile, next, permits, output,
                   reported, lastCurrent, dirty>>

\* The out_path, the iterations and the baseline flag of the child the job
\* is about to spawn.
NextChild(b) ==
    IF job[b].pc = "calibrate"
    THEN [out_path |-> baseline_path(b), iterations |-> 2, is_baseline |-> TRUE]
    ELSE IF job[b].pc = "baseline"
    THEN [out_path |-> baseline_path(b),
          iterations |-> BaselineIterations(job[b].estimated_iterations),
          is_baseline |-> TRUE]
    ELSE [out_path |-> full_path(b),
          iterations |-> FullIterations(job[b].estimated_iterations),
          is_baseline |-> FALSE]

\* The output directory after the child `child` of benchmark b ran.
ChildWrites(b, child) ==
    LET c == NextChild(b) IN
    IF child.wrote = "valid"
    THEN [fs EXCEPT ![c.out_path] =
              File(MockCachegrind(b, profile, c.iterations, c.is_baseline))]
    ELSE IF child.wrote = "partial" THEN [fs EXCEPT ![c.out_path] = File(PartialText)]
    ELSE fs

\* spawn_instrumented returns an error (the child exited with a failure, or
\* its output file is missing or does not parse): unwrap_result reports the
\* fatal error of the benchmark.
ChildFailure(b, child) ==
    /\ mode = "bench"
    /\ job[b].pc \in {"calibrate", "baseline", "full"}
    /\ (success(child.status) /\ child.wrote = "none") => fs[NextChild(b).out_path] = NoFile
    /\ LET after == ChildWrites(b, child)
           res == spawn_instrumented([status |-> child.status, stdout |-> child.stdout,
                                      stderr |-> child.stderr],
                                     after[NextChild(b).out_path])
       IN  /\ ~res.ok
           /\ fs' = after
           /\ job' = [job EXCEPT ![b].pc = "fatal", ![b].child = child,
                                 ![b].error = ErrorMessage(res.error)]
    /\ events' = [events EXCEPT ![b] =
                     @ \o (IF job[b].pc = "calibrate" THEN <<"start">>
                           ELSE IF job[b].pc = "full" THEN <<"baseline">>
                           ELSE <<>>) \o <<"error">>]
    /\ UNCHANGED <<options, named_baseline, calc, exit, regressed_benches, saver_stats, saved, should_fail, run, mode, profile, next, permits, output,
                   reported, lastCurrent, dirty>>

\* fs::rename(baseline_path, final_baseline_path)
StepRenameBaseline(b) ==
    /\ mode = "bench"
    /\ job[b].pc = "rename_baseline"
    /\ fs' = Rename(fs, baseline_path(b), final_baseline_path(b))
    /\ job' = [job EXCEPT ![b].pc = "rename_full"]
    /\ UNCHANGED <<options, named_baseline, calc, exit, regressed_benches, saver_stats, saved, should_fail, run, mode, profile, next, permits, events, output,
                   reported, lastCurrent, dirty>>

\* A runner that goes on after a failed rename.
RenameFailureIgnored(b) ==
    /\ mode = "bench"
    /\ job[b].pc \in {"rename_baseline", "rename_full"}
    /\ job' = [job EXCEPT ![b].pc = IF @ = "rename_baseline" THEN "rename_full" ELSE "ok"]
    /\ UNCHANGED <<options, named_baseline, calc, exit, regressed_benches, saver_stats, saved, should_fail, fs,
                   run, mode, profile, next, permits, events, output, reported, lastCurrent,
                   dirty>>

\* fs::rename returns an error (for the baseline or for the full output):
\* unwrap_result reports the fatal error of the benchmark; nothing is moved.
RenameFailure(b) ==
    /\ mode = "bench"
    /\ job[b].pc \in {"rename_baseline", "rename_full"}
    /\ job' = [job EXCEPT ![b].pc = "fatal", ![b].error = <<"rename">>]
    /\ events' = [events EXCEPT ![b] = Append(@, "error")]
    /\ UNCHANGED <<options, named_baseline, calc, exit, regressed_benches, saver_stats, saved, should_fail, fs,
                   run, mode, profile, next, permits, output, reported, lastCurrent, dirty>>

\* A runner that reports without the second rename.
StepRenameFullMissing(b) ==
    /\ mode = "bench"
    /\ job[b].pc = "rename_full"
    /\ job' = [job EXCEPT ![b].pc = "ok"]
    /\ UNCHANGED <<options, named_baseline, calc, exit, regressed_benches, saver_stats, saved, should_fail, fs, run, mode, profile, next, permits, events, output,
                   reported, lastCurrent, dirty>>

\* fs::rename(full_path, final_full_path)
StepRenameFull(b) ==
    /\ mode = "bench"
    /\ job[b].pc = "rename_full"
    /\ fs' = Rename(fs, full_path(b), final_full_path(b))
    /\ job' = [job EXCEPT ![b].pc = "ok"]
    /\ UNCHANGED <<options, named_baseline, calc, exit, regressed_benches, saver_stats, saved, should_fail, run, mode, profile, next, permits, events, output,
                   reported, lastCurrent, dirty>>

BenchmarkOutput(stats, prev_stats) == [stats |-> stats, prev_stats |-> prev_stats]

(* ---------------- reporter/baseline.rs: saver and checker -------------- *)

\* BenchOptions::regression_threshold
regression_threshold == IF options.baseline THEN options.threshold ELSE Nothing

\* HashMap::insert
MapInsert(map, key, value) ==
    [k \in DOMAIN map \cup {key} |-> IF k = key THEN value ELSE map[k]]

\* The noise level of a breakdown: `total_instructions() / 1_000`
NoiseThreshold(total) == total \div 1000

\* A saver that keeps every function of the breakdown.
RetainAll(stats) == stats

\* BenchmarkBaselineReporter::ok, `stats.breakdown.retain(..)`
Retain(stats) ==
    LET threshold == NoiseThreshold(total_instructions(stats.summary))
        kept == {f \in DOMAIN stats.breakdown :
                    total_instructions(stats.breakdown[f]) >= threshold}
    IN  [stats EXCEPT !.breakdown = [f \in kept |-> stats.breakdown[f]]]

\* A saver that forgets the benchmark.
BenchmarkBaselineReporterOkNothing(stats, breakdown, id, out) == stats

\* BenchmarkBaselineReporter::ok
BenchmarkBaselineReporterOk(stats, breakdown, id, out) ==
    MapInsert(stats, IdToString(id),
              IF breakdown THEN Retain(out.stats)
              ELSE [out.stats EXCEPT !.breakdown = EmptyMap])

\* RegressionBenchmarkChecker::ok, the regression as the ratio it divides:
\* Nothing without previous stats or when `checked_sub` fails.
Regression(out) ==
    IF out.prev_stats = Nothing THEN Nothing
    ELSE LET current == total_instructions(out.stats.summary)
             prev == total_instructions(out.prev_stats.summary)
         IN  IF current < prev THEN Nothing ELSE [num |-> current - prev, den |-> prev]

\* A comparison that also accepts equality.
GreaterOrEqual(regression, threshold) ==
    IF regression.den = 0 THEN regression.num > 0
    ELSE regression.num * threshold.den >= threshold.num * regression.den

\* `regression as f64 / prev as f64 > threshold`; a division by zero is
\* +inf for a positive numerator and NaN (never greater) for zero.
GreaterThan(regression, threshold) ==
    IF regression.den = 0 THEN regression.num > 0
    ELSE regression.num * threshold.den > threshold.num * regression.den

\* RegressionBenchmarkChecker::ok: does the benchmark get its warning and
\* its entry in the list?
HasRegressed(threshold, out) ==
    /\ threshold # Nothing
    /\ Regression(out) # Nothing
    /\ GreaterThan(Regression(out), threshold)

\* The events of Seq::ok for a benchmark: the printer's `ok`, then the
\* warning of the regression checker.
OkEvents(out) ==
    <<"ok">> \o (IF HasRegressed(regression_threshold, out) THEN <<"regression">> ELSE <<>>)

\* regressed_benches after Seq::ok
Regressed(regressed, id, out) ==
    IF HasRegressed(regression_threshold, out)
    THEN Append(regressed, [id |-> IdToString(id), regression |-> Regression(out)])
    ELSE regressed

\* BaselineSaver::stats after Seq::ok
Saved(stats, id, out) ==
    IF options.save_baseline
    THEN BenchmarkBaselineReporterOk(stats, options.breakdown, id, out)
    ELSE stats

\* reporter.ok(BenchmarkOutput { stats, prev_stats }); run_benchmark returns.
StepOk(b) ==
    /\ mode = "bench"
    /\ job[b].pc = "ok"
    /\ LET out == BenchmarkOutput(job[b].stats, job[b].prev_stats) IN
       /\ events' = [events EXCEPT ![b] = @ \o OkEvents(out)]
       /\ output' = [output EXCEPT ![b] = out]
       /\ saver_stats' = Saved(saver_stats, ExecutorId(b), out)
       /\ regressed_benches' = Regressed(regressed_benches, ExecutorId(b), out)
    /\ reported' = Append(reported, b)
    /\ lastCurrent' = [lastCurrent EXCEPT ![b] = job[b].stats]
    /\ dirty' = [dirty EXCEPT ![b] = FALSE]
    /\ IF capacity = 1
       THEN /\ job' = [job EXCEPT ![b].pc = "done"]
            /\ next' = next + 1
       ELSE /\ job' = [job EXCEPT ![b].pc = "release"]
            /\ UNCHANGED next
    /\ UNCHANGED <<options, named_baseline, calc, exit, saved, should_fail, fs, run, mode, profile, permits>>

\* CachegrindRunner::report_benchmark_result (the PrintResults mode, without
\* a printed baseline): `no data` unless both final files load; the previous
\* stats come from the named baseline or from the `.old` files.
StepPrint(b) ==
    /\ mode = "print"
    /\ next = b
    /\ Selected(b)
    /\ LET baseline == load_output(final_baseline_path(b))
           full == load_output(final_full_path(b))
           old_baseline == load_output(old_baseline_path(b))
           old_full == load_output(old_full_path(b))
           prev_stats ==
               IF options.baseline
               THEN BaselineGet(NamedBaseline, ExecutorId(b))
               ELSE IF old_baseline.value = Nothing \/ old_full.value = Nothing THEN Nothing
               ELSE OutputSub(old_full.value, old_baseline.value)
           prevWarnings ==
               IF options.baseline THEN <<>>
               ELSE Warnings(old_baseline) \o
                    (IF old_baseline.value = Nothing THEN <<>> ELSE Warnings(old_full))
           out == BenchmarkOutput(OutputSub(full.value, baseline.value), prev_stats)
       IN  IF baseline.value = Nothing
           THEN /\ events' = [events EXCEPT ![b] = Warnings(baseline) \o <<"no data">>]
                /\ UNCHANGED <<output, reported, saver_stats, regressed_benches>>
           ELSE IF full.value = Nothing
           THEN /\ events' = [events EXCEPT ![b] = Warnings(full) \o <<"no data">>]
                /\ UNCHANGED <<output, reported, saver_stats, regressed_benches>>
           ELSE /\ events' = [events EXCEPT ![b] = prevWarnings \o OkEvents(out)]
                /\ output' = [output EXCEPT ![b] = out]
                /\ saver_stats' = Saved(saver_stats, ExecutorId(b), out)
                /\ regressed_benches' = Regressed(regressed_benches, ExecutorId(b), out)
                /\ reported' = Append(reported, b)
    /\ next' = b + 1
    /\ UNCHANGED <<options, named_baseline, calc, exit, saved, should_fail, fs, run, mode, profile, job,
                   permits, lastCurrent, dirty>>

\* report_benchmark_result with `--print BASELINE`: the current stats are the
\* entry of the id in the named baseline, which is loaded at the first
\* request; without an entry the benchmark has no data.  The previous stats
\* are those of `--baseline`, if given, and absent otherwise.
StepPrintNamed(b) ==
    /\ mode = "print_named"
    /\ next = b
    /\ Selected(b)
    /\ EnsureBaseline(named_baseline).cell # NoFile
    /\ named_baseline' = EnsureBaseline(named_baseline)
    /\ LET stats == BaselineGet(named_baseline'.cell.stats, ExecutorId(b))
           prev_stats == IF options.baseline THEN BaselineGet(NamedBaseline, ExecutorId(b))
                         ELSE Nothing
           out == BenchmarkOutput(stats, prev_stats)
       IN  IF stats = Nothing
           THEN /\ events' = [events EXCEPT ![b] = <<"no data">>]
                /\ UNCHANGED <<output, reported, saver_stats, regressed_benches>>
           ELSE /\ events' = [events EXCEPT ![b] = OkEvents(out)]
                /\ output' = [output EXCEPT ![b] = out]
                /\ saver_stats' = Saved(saver_stats, ExecutorId(b), out)
                /\ regressed_benches' = Regressed(regressed_benches, ExecutorId(b), out)
                /\ reported' = Append(reported, b)
    /\ next' = b + 1
    /\ UNCHANGED <<options, calc, exit, saved, should_fail, fs, run, mode, profile, job,
                   permits, lastCurrent, dirty>>

\* The process ends successfully.
ExitSuccess == [status |-> "success", error |-> "", list |-> <<>>]

\* Logger::fatal: the error is printed and the executable terminates with a
\* failure.
fatal(error, list) == [status |-> "failure", error |-> error, list |-> list]

\* Reporter::ok of BaselineSaver: the file written at out_path.
BaselineSaverOk(stats) == [stats |-> stats]

\* A checker that never fails the process.
RegressionCheckerOkLenient(regressed) == ExitSuccess

\* Reporter::ok of RegressionChecker: a non-empty list is a fatal error that
\* lists the regressed benchmarks.
RegressionCheckerOk(regressed) ==
    IF regressed # <<>> THEN fatal("benches have regressed", regressed) ELSE ExitSuccess

\* A shutdown that gives the reporters their final `ok` without joining the
\* jobs.
FinishWithoutJoin ==
    /\ mode # None
    /\ next = NumBenches + 1
    /\ ProcessEnd
    /\ UNCHANGED fs
    /\ saved' = IF options.save_baseline THEN BaselineSaverOk(saver_stats) ELSE saved
    /\ exit' = IF regression_threshold # Nothing
               THEN RegressionCheckerOk(regressed_benches)
               ELSE ExitSuccess

\* MainBencher::drop: every job is joined, the reporters get their final
\* `ok`, and the process exits.
Finish ==
    /\ mode # None
    /\ next = NumBenches + 1
    /\ \A b \in Benches : job[b].pc \in {"idle", "done"}
    /\ ProcessEnd
    /\ UNCHANGED fs
    /\ IF mode = "test" /\ should_fail
       THEN /\ exit' = fatal("There were test failures", <<>>)
            /\ UNCHANGED saved
       ELSE /\ saved' = IF options.save_baseline THEN BaselineSaverOk(saver_stats) ELSE saved
            /\ exit' = IF regression_threshold # Nothing
                       THEN RegressionCheckerOk(regressed_benches)
                       ELSE ExitSuccess

\* Logger::fatal terminates the executable after the error was reported.
ExitFatal ==
    /\ mode = "bench"
    /\ \E b \in Benches : job[b].pc = "fatal"
    /\ ProcessEnd
    /\ exit' = fatal("benchmark", <<>>)
    /\ UNCHANGED <<fs, saved>>

\* A panic of run_benchmark ends the process with a failure: on the main
\* thread (one job) MainBencher::drop returns at once while panicking; for a
\* job thread, drop reports "At least one of benchmarking jobs failed".
ExitPanic ==
    /\ mode = "bench"
    /\ \E b \in Benches :
           /\ job[b].pc = "panicked"
           /\ capacity # 1 =>
                  /\ next = NumBenches + 1
                  /\ ~job[b].permit
                  /\ \A earlier \in 1..(b - 1) : job[earlier].pc \in {"idle", "done"}
    /\ ProcessEnd
    /\ exit' = fatal(IF capacity = 1 THEN "panic"
                     ELSE "At least one of benchmarking jobs failed", <<>>)
    /\ UNCHANGED <<fs, saved>>

\* The unwinding of a panicking job thread drops its `_permit`: the permit is
\* released and one waiter is notified.
Unwind(b) ==
    /\ mode = "bench"
    /\ job[b].pc = "panicked"
    /\ job[b].permit
    /\ permits' = permits + 1
    /\ IF Waiters = {}
       THEN job' = [job EXCEPT ![b].permit = FALSE]
       ELSE \E w \in Waiters :
                job' = [job EXCEPT ![b].permit = FALSE, ![w].pc = "acquire"]
    /\ UNCHANGED <<options, named_baseline, calc, exit, regressed_benches, saver_stats, saved, should_fail, fs,
                   run, mode, profile, next, events, output, reported, lastCurrent, dirty>>

\* The output file of a child that is about to run or running.
InFlight(b) ==
    IF job[b].pc \in {"calibrate", "baseline"} THEN {baseline_path(b)}
    ELSE IF job[b].pc = "full" THEN {full_path(b)}
    ELSE {}

\* The parent process is killed.  A child that was writing its output may
\* leave a partial file at its (temporary) out_path.
Kill(partial) ==
    /\ mode # None
    /\ ProcessEnd
    /\ exit' = [status |-> "killed", error |-> "", list |-> <<>>]
    /\ UNCHANGED saved
    /\ fs' = [p \in Paths |->
                 IF partial /\ \E b \in Benches : p \in InFlight(b)
                 THEN File(PartialText) ELSE fs[p]]

Next ==
    \/ \E p \in Profiles : StartProcess("bench", p)
    \/ StartProcess("print", "main")
    \/ \E b \in Benches : Skip(b)
    \/ \E b \in Benches : Register(b)
    \/ \E b \in Benches : Acquire(b)
    \/ \E b \in Benches : Release(b)
    \/ \E b \in Benches : Notify(b)
    \/ \E b \in Benches : StepEnsureBaseline(b)
    \/ \E b \in Benches : StepBackupBaseline(b)
    \/ \E b \in Benches : StepBackupFull(b)
    \/ \E b \in Benches : StepCalibrate(b)
    \/ \E b \in Benches : StepBaseline(b)
    \/ \E b \in Benches : StepFull(b)
    \/ \E b \in Benches, child \in FailedChildren : ChildFailure(b, child)
    \/ \E b \in Benches : StepRenameBaseline(b)
    \/ \E b \in Benches : StepRenameFull(b)
    \/ \E b \in Benches : StepOk(b)
    \/ \E b \in Benches : StepPrint(b)
    \/ Finish
    \/ ExitFatal
    \/ \E partial \in BOOLEAN : Kill(partial)

Spec == Init /\ [][Next]_vars

(* ------------- the iteration estimate over a range of inputs ----------- *)

\* Largest warm-up, calibration total and iteration cap of the dense ranges.
MaxWarmUp == 12
MaxTotal == 5
MaxIter == 3

EstimateWarmUps == (1..MaxWarmUp) \cup {1000000}
EstimateTotals == (1..MaxTotal) \cup {5000}
EstimateMaxIterations == (1..MaxIter) \cup {1000}

\* The options of the example: the default warm-up and iteration cap.
EstimateOptions ==
    [warm_up_instructions |-> 1000000, max_iterations |-> 1000, jobs |-> 1,
     baseline |-> FALSE, id_matcher |-> Exact(<<"fib">>),
     threshold |-> DefaultThreshold, save_baseline |-> FALSE, breakdown |-> FALSE]

EstimateInit == options = EstimateOptions /\ Fresh

\* The estimate of run_benchmark applied to (w, t, m).
Estimate(w, t, m) ==
    /\ mode = None
    /\ run = 0
    /\ calc' = [warm_up_instructions |-> w, total_instructions |-> t,
                max_iterations |-> m,
                estimated_iterations |-> EstimatedIterations(w, t, m)]
    /\ UNCHANGED <<options, named_baseline, exit, regressed_benches, saver_stats, saved, should_fail, fs, run, mode, profile, next, job, permits, events,
                   output, reported, lastCurrent, dirty>>

\* One measuring process of benchmark 1 with the example's options.
EstimateStart == calc = Nothing /\ run = 0 /\ StartProcess("bench", "main")

EstimateNext ==
    \/ \E w \in EstimateWarmUps, t \in EstimateTotals, m \in EstimateMaxIterations :
           Estimate(w, t, m)
    \/ EstimateStart
    \/ \E b \in Benches : Skip(b)
    \/ \E b \in Benches : Register(b)
    \/ \E b \in Benches : StepBackupBaseline(b)
    \/ \E b \in Benches : StepCalibrate(b)
    \/ \E b \in Benches : StepBaseline(b)
    \/ \E b \in Benches : StepFull(b)
    \/ \E b \in Benches : StepRenameBaseline(b)
    \/ \E b \in Benches : StepRenameFull(b)
    \/ \E b \in Benches : StepOk(b)
    \/ Finish

SpecEstimate == EstimateInit /\ [][EstimateNext]_vars

(* ------------- options.rs: zero warm-up and zero iteration cap --------- *)

\* --warm-up and --max-iterations are u64 arguments without a validation.
ConfigOptions ==
    {[EstimateOptions EXCEPT !.warm_up_instructions = w, !.max_iterations = m,
                             !.id_matcher = AnyId] :
        w \in {0, 1000000}, m \in {0, 1000}}

ConfigInit == options \in ConfigOptions /\ Fresh

ConfigNext ==
    \/ \E p \in Profiles : StartProcess("bench", p)
    \/ \E b \in Benches : Register(b)
    \/ \E b \in Benches : StepBackupBaseline(b)
    \/ \E b \in Benches : StepCalibrate(b)
    \/ \E b \in Benches : StepCalibratePanics(b)
    \/ \E b \in Benches : StepBaseline(b)
    \/ \E b \in Benches : StepFull(b)
    \/ \E b \in Benches : StepRenameBaseline(b)
    \/ \E b \in Benches : StepRenameFull(b)
    \/ \E b \in Benches : StepOk(b)
    \/ Finish
    \/ ExitPanic

SpecConfig == ConfigInit /\ [][ConfigNext]_vars

(* ------------- bencher.rs: the paths of two concurrent jobs ------------ *)

\* Ids as texts: a text is a sequence of tokens, "/" being one of them.
\* BenchmarkId::from(name) and BenchmarkId::new(name, args).
PathIds ==
    {[name |-> <<"guard", "/", "explicit">>, args |-> <<>>, has_args |-> FALSE],
     [name |-> <<"guard">>, args |-> <<"explicit">>, has_args |-> TRUE],
     [name |-> <<"fib">>, args |-> <<>>, has_args |-> FALSE],
     [name |-> <<"fib", ".baseline">>, args |-> <<>>, has_args |-> FALSE],
     [name |-> <<"fib">>, args |-> <<"15">>, has_args |-> TRUE]}

\* impl Display for BenchmarkId: `{name}/{args}` or `{name}`
IdText(id) == IF id.has_args THEN id.name \o <<"/">> \o id.args ELSE id.name

\* format!("{}.baseline.cachegrind~", self.id) and the like, joined to the
\* output directory
TempBaselinePath(id) == IdText(id) \o <<".baseline", ".cachegrind~">>
TempFullPath(id) == IdText(id) \o <<".cachegrind~">>
FinalBaselinePath(id) == IdText(id) \o <<".baseline", ".cachegrind">>
FinalFullPath(id) == IdText(id) \o <<".cachegrind">>

\* backup_path.set_extension("{current_extension}.old")
OldPath(path) == path \o <<".old">>

\* The paths run_benchmark reads or writes for a benchmark.
PathsOf(id) ==
    {TempBaselinePath(id), TempFullPath(id), FinalBaselinePath(id), FinalFullPath(id),
     OldPath(FinalBaselinePath(id)), OldPath(FinalFullPath(id))}

\* Two calls of Bencher::bench with more than one job: one thread each.
\* `files` gives the job that wrote the content of a path (0: no file),
\* `foreign` the jobs that have read or replaced content of the other job.
RegisterPair(id1, id2) ==
    /\ mode = None
    /\ run = 0
    /\ calc = Nothing
    /\ calc' = [ids |-> <<id1, id2>>,
                pc |-> <<"backup_baseline", "backup_baseline">>,
                files |-> [path \in PathsOf(id1) \cup PathsOf(id2) |-> 0],
                foreign |-> {}]
    /\ UNCHANGED <<options, named_baseline, exit, regressed_benches, saver_stats, saved, should_fail, fs, run,
                   mode, profile, next, job, permits, events, output, reported, lastCurrent,
                   dirty>>

\* The jobs whose access to the paths in `touched` meets content of another job.
Meets(j, touched) == IF \E path \in touched : calc.files[path] \notin {0, j} THEN {j} ELSE {}

\* One step of run_benchmark in job j: the backups of the previous outputs,
\* the calibration, baseline and full children (each output is read back),
\* and the two renames; a rename of a missing file is a fatal error.
PathStep(j) ==
    /\ mode = None
    /\ calc # Nothing
    /\ "ids" \in DOMAIN calc
    /\ LET id == calc.ids[j]
           pc == calc.pc[j]
           files == calc.files
           copy(from) == IF files[from] = 0 THEN files
                         ELSE [files EXCEPT ![OldPath(from)] = files[from]]
           move(from, to) == IF files[from] = 0 THEN files
                             ELSE [files EXCEPT ![to] = files[from], ![from] = 0]
           step(to, after, touched) ==
               calc' = [calc EXCEPT !.pc[j] = to, !.files = after,
                                    !.foreign = @ \cup Meets(j, touched)]
       IN  CASE pc = "backup_baseline" ->
                    step(IF files[FinalBaselinePath(id)] = 0 THEN "calibrate" ELSE "backup_full",
                         copy(FinalBaselinePath(id)),
                         {FinalBaselinePath(id)}
                             \cup (IF files[FinalBaselinePath(id)] = 0 THEN {}
                                   ELSE {OldPath(FinalBaselinePath(id))}))
             [] pc = "backup_full" ->
                    step("calibrate", copy(FinalFullPath(id)),
                         {FinalFullPath(id)}
                             \cup (IF files[FinalFullPath(id)] = 0 THEN {}
                                   ELSE {OldPath(FinalFullPath(id))}))
             [] pc = "calibrate" ->
                    step("baseline", [files EXCEPT ![TempBaselinePath(id)] = j],
                         {TempBaselinePath(id)})
             [] pc = "baseline" ->
                    step("full", [files EXCEPT ![TempBaselinePath(id)] = j],
                         {TempBaselinePath(id)})
             [] pc = "full" ->
                    step("rename_baseline", [files EXCEPT ![TempFullPath(id)] = j],
                         {TempFullPath(id)})
             [] pc = "rename_baseline" ->
                    step(IF files[TempBaselinePath(id)] = 0 THEN "fatal" ELSE "rename_full",
                         move(TempBaselinePath(id), FinalBaselinePath(id)),
                         {TempBaselinePath(id), FinalBaselinePath(id)})
             [] pc = "rename_full" ->
                    step(IF files[TempFullPath(id)] = 0 THEN "fatal" ELSE "done",
                         move(TempFullPath(id), FinalFullPath(id)),
                         {TempFullPath(id), FinalFullPath(id)})
             [] OTHER -> FALSE
    /\ UNCHANGED <<options, named_baseline, exit, regressed_benches, saver_stats, saved, should_fail, fs, run,
                   mode, profile, next, job, permits, events, output, reported, lastCurrent,
                   dirty>>

PathsNext ==
    \/ \E id1 \in PathIds, id2 \in PathIds : RegisterPair(id1, id2)
    \/ \E j \in 1..2 : PathStep(j)

SpecPaths == EstimateInit /\ [][PathsNext]_vars

(* ------------- bencher.rs: publication with failing renames ----------- *)

\* One benchmark, measured several times, with and without the saver and
\* the regression checker (threshold 1%).
PublishOptions ==
    {[EstimateOptions EXCEPT !.baseline = nb, !.save_baseline = sb,
                             !.threshold = [num |-> 1, den |-> 100]] :
        nb \in BOOLEAN, sb \in BOOLEAN}

PublishInit == options \in PublishOptions /\ Fresh

PublishNext ==
    \/ \E p \in Profiles : StartProcess("bench", p)
    \/ \E b \in Benches : Skip(b)
    \/ \E b \in Benches : Register(b)
    \/ \E b \in Benches : StepEnsureBaseline(b)
    \/ \E b \in Benches : StepBackupBaseline(b)
    \/ \E b \in Benches : StepBackupFull(b)
    \/ \E b \in Benches : StepCalibrate(b)
    \/ \E b \in Benches : StepBaseline(b)
    \/ \E b \in Benches : StepFull(b)
    \/ \E b \in Benches : StepRenameBaseline(b)
    \/ \E b \in Benches : StepRenameFull(b)
    \/ \E b \in Benches : RenameFailure(b)
    \/ \E b \in Benches : StepOk(b)
    \/ Finish
    \/ ExitFatal

SpecPublish == PublishInit /\ [][PublishNext]_vars

(* ------------- bencher.rs: the dispatch in the child ------------------- *)

\* Longest name, args and marker argument of the comparisons.
MaxText == 2
MaxMarker == 4

\* Texts over the characters `a` and `/`.
Chars == {"a", "/"}
TextsUpTo(n) == UNION {[1..k -> Chars] : k \in 1..n}

\* BenchmarkId::from(name) and BenchmarkId::new(name, args) over these texts.
ComparedIds ==
    {[name |-> name, args |-> <<>>, has_args |-> FALSE] : name \in TextsUpTo(MaxText)}
        \cup {[name |-> name, args |-> args, has_args |-> TRUE] :
                  name \in TextsUpTo(MaxText), args \in TextsUpTo(MaxText)}

\* str::starts_with and str::ends_with
StartsWith(text, prefix) ==
    Len(prefix) <= Len(text) /\ SubSeq(text, 1, Len(prefix)) = prefix

EndsWith(text, suffix) ==
    Len(suffix) <= Len(text)
        /\ SubSeq(text, Len(text) - Len(suffix) + 1, Len(text)) = suffix

\* A comparison that looks at the name only.
IdEqStrByPrefix(id, other) == StartsWith(other, id.name)

\* impl PartialEq<&str> for BenchmarkId
IdEqStr(id, other) ==
    IF id.has_args
    THEN /\ Len(id.name) + 1 + Len(id.args) = Len(other)
         /\ StartsWith(other, id.name)
         /\ EndsWith(other, id.args)
         /\ other[Len(id.name) + 1] = "/"
    ELSE id.name = other

\* `*id != options.id.as_str()` for one id and one marker argument.
Compare(id, other) ==
    /\ mode = None
    /\ run = 0
    /\ calc = Nothing
    /\ calc' = [id |-> id, other |-> other, equal |-> IdEqStr(id, other)]
    /\ UNCHANGED <<options, named_baseline, exit, regressed_benches, saver_stats, saved, should_fail, fs, run,
                   mode, profile, next, job, permits, events, output, reported, lastCurrent,
                   dirty>>

\* The marker arguments of the children: the texts of the registered ids
\* and one that no id has.
Markers == {IdText(id) : id \in PathIds} \cup {<<"fib", "/", "20">>}

\* The child is started with `--cachegrind-instrument ITERS +|- marker` and
\* its main function registers three benchmarks in turn.
ChildMain(registered, marker) ==
    /\ mode = None
    /\ run = 0
    /\ calc = Nothing
    /\ calc' = [registered |-> registered, marker |-> marker, at |-> 1, invoked |-> {},
                pc |-> "main"]
    /\ UNCHANGED <<options, named_baseline, exit, regressed_benches, saver_stats, saved, should_fail, fs, run,
                   mode, profile, next, job, permits, events, output, reported, lastCurrent,
                   dirty>>

\* Bencher::bench_inner in the Cachegrind mode for the next registration:
\* return for another id, else run_instrumented, which ends the process;
\* after the last registration main returns.
ChildBench ==
    /\ mode = None
    /\ calc # Nothing
    /\ "registered" \in DOMAIN calc
    /\ calc.pc = "main"
    /\ IF calc.at > Len(calc.registered)
       THEN calc' = [calc EXCEPT !.pc = "returned"]
       ELSE IF ~IdEqStr(calc.registered[calc.at], calc.marker)
       THEN calc' = [calc EXCEPT !.at = @ + 1]
       ELSE calc' = [calc EXCEPT !.invoked = @ \cup {calc.at}, !.pc = "exited"]
    /\ UNCHANGED <<options, named_baseline, exit, regressed_benches, saver_stats, saved, should_fail, fs, run,
                   mode, profile, next, job, permits, events, output, reported, lastCurrent,
                   dirty>>

DispatchNext ==
    \/ \E id \in ComparedIds, other \in TextsUpTo(MaxMarker) : Compare(id, other)
    \/ \E registered \in [1..3 -> PathIds], marker \in Markers : ChildMain(registered, marker)
    \/ ChildBench

SpecDispatch == EstimateInit /\ [][DispatchNext]_vars

(* ------------- utils.rs: threads that share the semaphore -------------- *)

\* Semaphore::new(permits) for every number of permits up to MaxJobs, shared
\* by NumBenches threads.
SemaphoreOptions == {[EstimateOptions EXCEPT !.jobs = j] : j \in 1..MaxJobs}

SemaphoreInit ==
    /\ options \in SemaphoreOptions
    /\ fs = [p \in Paths |-> NoFile]
    /\ run = 1
    /\ mode = "bench"
    /\ profile = "main"
    /\ next = 1
    /\ job = [b \in Benches |-> IdleJob]
    /\ permits = options.jobs
    /\ events = [b \in Benches |-> <<>>]
    /\ output = [b \in Benches |-> Nothing]
    /\ reported = <<>>
    /\ lastCurrent = [b \in Benches |-> Nothing]
    /\ dirty = [b \in Benches |-> FALSE]
    /\ calc = Nothing
    /\ exit = Nothing
    /\ regressed_benches = <<>>
    /\ saver_stats = EmptyMap
    /\ saved = NoFile
    /\ should_fail = FALSE
    /\ named_baseline = Unread([stats |-> NamedBaseline])

\* thread::spawn(move || { let _permit = semaphore.acquire_owned(); .. }): the
\* threads are spawned one after the other, each starts in acquire_owned.
Spawn(b) ==
    /\ mode = "bench"
    /\ next = b
    /\ job[b].pc = "idle"
    /\ job' = [job EXCEPT ![b].pc = "acquire"]
    /\ next' = b + 1
    /\ UNCHANGED <<options, named_baseline, calc, exit, regressed_benches, saver_stats, saved, should_fail, fs, run, mode, profile, permits, events, output,
                   reported, lastCurrent, dirty>>

\* The body of a thread that holds a permit comes to its end, where the
\* guard `_permit` is dropped.
Work(b) ==
    /\ mode = "bench"
    /\ job[b].pc = "prev_stats"
    /\ job[b].permit
    /\ job' = [job EXCEPT ![b].pc = "release"]
    /\ UNCHANGED <<options, named_baseline, calc, exit, regressed_benches, saver_stats, saved, should_fail, fs, run, mode, profile, next, permits, events, output,
                   reported, lastCurrent, dirty>>

\* Condvar::wait_while may wake up without a notification; the waiter checks
\* the permits again.
SpuriousWakeUp(b) ==
    /\ mode = "bench"
    /\ job[b].pc = "waiting"
    /\ job' = [job EXCEPT ![b].pc = "acquire"]
    /\ UNCHANGED <<options, named_baseline, calc, exit, regressed_benches, saver_stats, saved, should_fail, fs, run, mode, profile, next, permits, events, output,
                   reported, lastCurrent, dirty>>

SemaphoreNext ==
    \/ \E b \in Benches : Spawn(b)
    \/ \E b \in Benches : Acquire(b)
    \/ \E b \in Benches : Work(b)
    \/ \E b \in Benches : Release(b)
    \/ \E b \in Benches : Notify(b)
    \/ \E b \in Benches : SpuriousWakeUp(b)
    \/ Finish

\* Every thread is scheduled again and again, and so is the thread that
\* joins them; a wake-up without a notification need never happen.
SemaphoreFairness ==
    /\ \A b \in Benches : WF_vars(Spawn(b))
    /\ \A b \in Benches : WF_vars(Acquire(b))
    /\ \A b \in Benches : WF_vars(Work(b))
    /\ \A b \in Benches : WF_vars(Release(b))
    /\ \A b \in Benches : WF_vars(Notify(b))
    /\ WF_vars(Finish)

SpecSemaphore == SemaphoreInit /\ [][SemaphoreNext]_vars /\ SemaphoreFairness

(* ------------- bencher.rs: the shutdown of a process with jobs --------- *)

\* --jobs 2 --save-baseline with a regression threshold of 1%, with and
\* without --baseline, and with an iteration cap that makes every job panic.
ShutdownOptions ==
    {[EstimateOptions EXCEPT !.jobs = MaxJobs, !.id_matcher = AnyId, !.save_baseline = TRUE,
                             !.threshold = [num |-> 1, den |-> 100],
                             !.baseline = nb, !.max_iterations = m] :
        nb \in BOOLEAN, m \in {0, 1000}}

ShutdownInit == options \in ShutdownOptions /\ Fresh

ShutdownNext ==
    \/ \E p \in Profiles : StartProcess("bench", p)
    \/ \E b \in Benches : Register(b)
    \/ \E b \in Benches : Acquire(b)
    \/ \E b \in Benches : Release(b)
    \/ \E b \in Benches : Notify(b)
    \/ \E b \in Benches : StepEnsureBaseline(b)
    \/ \E b \in Benches : StepBackupBaseline(b)
    \/ \E b \in Benches : StepCalibrate(b)
    \/ \E b \in Benches : StepCalibratePanics(b)
    \/ \E b \in Benches : Unwind(b)
    \/ \E b \in Benches : StepBaseline(b)
    \/ \E b \in Benches : StepFull(b)
    \/ \E b \in Benches, child \in FailedChildren : ChildFailure(b, child)
    \/ \E b \in Benches : StepRenameBaseline(b)
    \/ \E b \in Benches : StepRenameFull(b)
    \/ \E b \in Benches : StepOk(b)
    \/ Finish
    \/ ExitFatal
    \/ ExitPanic

SpecShutdown == ShutdownInit /\ [][ShutdownNext]_vars

(* ------------- bencher.rs: the named baseline of concurrent jobs ------- *)

\* A named baseline with an entry for fib only.
OtherBaseline ==
    [t \in {<<"fib">>} |->
        CachegrindOutput(
            Full(FullStats(DataPoint(3000, 4, 1), DataPoint(70, 4, 1), DataPoint(90, 2, 0))),
            EmptyMap)]

\* What may be at the path of `--baseline`: one of the two maps or no file.
BaselineFiles == {[stats |-> NamedBaseline], [stats |-> OtherBaseline], NoFile}

\* --jobs 2 for all benchmarks.
BaselineOptions == [EstimateOptions EXCEPT !.jobs = MaxJobs, !.id_matcher = AnyId]

BaselineInit == options = BaselineOptions /\ Fresh

\* A measuring process is started with or without `--baseline`.
StartMeasure(with_baseline) ==
    /\ mode = None
    /\ run < MaxRuns
    /\ options' = [options EXCEPT !.baseline = with_baseline]
    /\ run' = run + 1
    /\ mode' = "bench"
    /\ profile' = "main"
    /\ next' = 1
    /\ job' = [b \in Benches |-> IdleJob]
    /\ permits' = options.jobs
    /\ events' = [b \in Benches |-> <<>>]
    /\ output' = [b \in Benches |-> Nothing]
    /\ reported' = <<>>
    /\ exit' = Nothing
    /\ regressed_benches' = <<>>
    /\ saver_stats' = EmptyMap
    /\ saved' = NoFile
    /\ should_fail' = FALSE
    /\ named_baseline' = Unread(named_baseline.file)
    /\ UNCHANGED <<calc, fs, lastCurrent, dirty>>

\* The file at the path of `--baseline` is replaced or removed by somebody
\* else while the process runs.
WriteBaselineFile(file) ==
    /\ mode = "bench"
    /\ options.baseline
    /\ named_baseline.file # file
    /\ named_baseline' = [named_baseline EXCEPT !.file = file]
    /\ UNCHANGED <<options, calc, exit, regressed_benches, saver_stats, saved, should_fail, fs,
                   run, mode, profile, next, job, permits, events, output, reported,
                   lastCurrent, dirty>>

\* load_baseline of the first request: the file cannot be read, which is
\* fatal inside the initializer, so that the cell is never filled.
StepEnsureBaselineFatal(b) ==
    /\ mode = "bench"
    /\ job[b].pc = "prev_stats"
    /\ options.baseline
    /\ named_baseline.cell # Loading
    /\ EnsureBaseline(named_baseline).cell = NoFile
    /\ named_baseline' = [named_baseline EXCEPT !.cell = Loading, !.reads = @ + 1]
    /\ job' = [job EXCEPT ![b].pc = "fatal", ![b].error = <<"failed reading baseline">>]
    /\ events' = [events EXCEPT ![b] = Append(@, "error")]
    /\ UNCHANGED <<options, calc, exit, regressed_benches, saver_stats, saved, should_fail, fs,
                   run, mode, profile, next, permits, output, reported, lastCurrent, dirty>>

BaselineNext ==
    \/ \E with_baseline \in BOOLEAN : StartMeasure(with_baseline)
    \/ \E file \in BaselineFiles : WriteBaselineFile(file)
    \/ \E b \in Benches : Register(b)
    \/ \E b \in Benches : Acquire(b)
    \/ \E b \in Benches : Release(b)
    \/ \E b \in Benches : Notify(b)
    \/ \E b \in Benches : StepEnsureBaseline(b)
    \/ \E b \in Benches : StepEnsureBaselineFatal(b)
    \/ \E b \in Benches : StepBackupBaseline(b)
    \/ \E b \in Benches : StepBackupFull(b)
    \/ \E b \in Benches : StepCalibrate(b)
    \/ \E b \in Benches : StepBaseline(b)
    \/ \E b \in Benches : StepFull(b)
    \/ \E b \in Benches : StepRenameBaseline(b)
    \/ \E b \in Benches : StepRenameFull(b)
    \/ \E b \in Benches : StepOk(b)
    \/ Finish
    \/ ExitFatal

SpecBaseline == BaselineInit /\ [][BaselineNext]_vars

(* ------------- bencher.rs: the estimate from a calibration output ----- *)

\* A panic of the thread that evaluates an expression.
Panic(message) == [ok |-> FALSE, panic |-> message]

\* estimated_iterations of run_benchmark with the checks of its operations:
\* the division of u64 panics on a zero divisor, and Ord::clamp asserts
\* min <= max.
EstimatedIterationsOrPanic(warm_up_instructions, total, max_iterations) ==
    IF total = 0 THEN Panic("attempt to divide by zero")
    ELSE IF 1 > max_iterations THEN Panic("assertion failed: min <= max")
    ELSE Ok(EstimatedIterations(warm_up_instructions, total, max_iterations))

\* Calibration outputs with a summary of up to MaxTotal instructions, with
\* the event Ir only and with all nine events.
CalibrationTexts ==
    {[cmd |-> [iterations |-> 2, is_baseline |-> TRUE], lines |-> {"events", "summary"},
      events |-> <<"Ir">>, rows |-> <<>>, summary |-> <<n>>] : n \in 0..MaxTotal}
      \cup
    {[cmd |-> [iterations |-> 2, is_baseline |-> TRUE], lines |-> {"events", "summary"},
      events |-> NineEvents, rows |-> <<>>,
      summary |-> <<n, 0, 0, 1, 0, 0, 1, 0, 0>>] : n \in 0..MaxTotal}

\* The calibration output is parsed and the estimate is computed from its
\* total instructions, for the options --warm-up w --max-iterations m.
CalibrationEstimate(text, w, m) ==
    /\ mode = None
    /\ run = 0
    /\ calc = Nothing
    /\ CachegrindOutputRead(text).ok
    /\ LET total == total_instructions(CachegrindOutputRead(text).value.summary) IN
       calc' = [text |-> text, warm_up_instructions |-> w, max_iterations |-> m,
                total_instructions |-> total,
                estimate |-> EstimatedIterationsOrPanic(w, total, m)]
    /\ UNCHANGED <<options, named_baseline, exit, regressed_benches, saver_stats, saved,
                   should_fail, fs, run, mode, profile, next, job, permits, events, output,
                   reported, lastCurrent, dirty>>

CalibrationNext ==
    \E text \in CalibrationTexts, w \in 0..MaxWarmUp, m \in 0..MaxIter :
        CalibrationEstimate(text, w, m)

SpecCalibration == EstimateInit /\ [][CalibrationNext]_vars

(* ------------- bencher.rs: the modes that do not measure --------------- *)

\* One job, with and without --baseline, for one benchmark and for all.
ModesOptions ==
    {[EstimateOptions EXCEPT !.id_matcher = m, !.baseline = nb] :
        m \in {AnyId, Exact(<<"fib">>)}, nb \in BOOLEAN}

ModesInit == options \in ModesOptions /\ Fresh

\* BenchMode::Test, List and PrintResults, the last with and without the
\* name of a baseline to print.
ReadOnlyModes == {"test", "list", "print", "print_named"}

ModesNext ==
    \/ \E p \in Profiles : StartProcess("bench", p)
    \/ \E m \in ReadOnlyModes : StartProcess(m, "main")
    \/ \E b \in Benches : Skip(b)
    \/ \E b \in Benches : Register(b)
    \/ \E b \in Benches : StepEnsureBaseline(b)
    \/ \E b \in Benches : StepBackupBaseline(b)
    \/ \E b \in Benches : StepBackupFull(b)
    \/ \E b \in Benches : StepCalibrate(b)
    \/ \E b \in Benches : StepBaseline(b)
    \/ \E b \in Benches : StepFull(b)
    \/ \E b \in Benches : StepRenameBaseline(b)
    \/ \E b \in Benches : StepRenameFull(b)
    \/ \E b \in Benches : StepOk(b)
    \/ \E b \in Benches, panics \in BOOLEAN : Test(b, panics)
    \/ \E b \in Benches : List(b)
    \/ \E b \in Benches : StepPrint(b)
    \/ \E b \in Benches : StepPrintNamed(b)
    \/ Finish
    \/ \E partial \in BOOLEAN : Kill(partial)

SpecModes == ModesInit /\ [][ModesNext]_vars

(* ------------- options.rs: the arguments of the child ------------------ *)

\* An argument is a text, a sequence of pieces; a number is written with one
\* piece per decimal digit.
DigitChars == <<"0", "1", "2", "3", "4", "5", "6", "7", "8", "9">>

\* u64::to_string
RECURSIVE to_string(_)
to_string(n) ==
    IF n < 10 THEN <<DigitChars[n + 1]>>
    ELSE to_string(n \div 10) \o <<DigitChars[(n % 10) + 1]>>

DigitValue(c) == CHOOSE d \in 0..9 : DigitChars[d + 1] = c

RECURSIVE DecimalValue(_)
DecimalValue(digits) ==
    IF digits = <<>> THEN 0
    ELSE 10 * DecimalValue(SubSeq(digits, 1, Len(digits) - 1))
             + DigitValue(digits[Len(digits)])

\* str::parse::<u64>: an optional `+`, then one or more decimal digits.
ParseU64(text) ==
    LET digits == IF text # <<>> /\ text[1] = "+" THEN Tail(text) ELSE text IN
    IF digits = <<>> \/ \E i \in 1..Len(digits) : ~\E d \in 1..10 : digits[i] = DigitChars[d]
    THEN Err
    ELSE Ok(DecimalValue(digits))

\* CachegrindOptions::MARKER
MARKER == <<"--cachegrind-instrument">>

\* A parent that marks the full child with `+` and the baseline child with `-`.
push_args_swapped(cachegrind_options) ==
    <<MARKER, to_string(cachegrind_options.iterations),
      IF cachegrind_options.is_baseline THEN <<"-">> ELSE <<"+">>, cachegrind_options.id>>

\* CachegrindOptions::push_args: the arguments added to the command.
push_args(cachegrind_options) ==
    <<MARKER, to_string(cachegrind_options.iterations),
      IF cachegrind_options.is_baseline THEN <<"+">> ELSE <<"-">>, cachegrind_options.id>>

ArgsError(kind) == [ok |-> FALSE, error |-> kind]

\* CachegrindOptions::parse_args: the first argument (the executable) is
\* skipped; Ok(Nothing) is Ok(None).
parse_args(args) ==
    IF Len(args) < 2 \/ args[2] # MARKER THEN Ok(Nothing)
    ELSE IF Len(args) < 3 THEN ArgsError("TooFewArgs")
    ELSE IF ~ParseU64(args[3]).ok THEN ArgsError("Iterations")
    ELSE IF Len(args) < 4 THEN ArgsError("TooFewArgs")
    ELSE IF args[4] \notin {<<"+">>, <<"-">>} THEN ArgsError("IsBaseline")
    ELSE IF Len(args) < 5 THEN ArgsError("TooFewArgs")
    ELSE Ok([iterations |-> ParseU64(args[3]).value, is_baseline |-> args[4] = <<"+">>,
             id |-> args[5]])

\* Iteration counts of one and of several digits, and ids, some of which
\* look like other arguments.
MarkerIterations == {0, 1, 2, 9, 10, 123, 1001, 1000000}
MarkerIds == {IdText(id) : id \in PathIds} \cup {<<>>, <<"+">>, <<"1">>, MARKER}

\* Arguments a child may be started with.
ArgSamples == {MARKER, <<"1", "2">>, <<"+">>, <<"-">>, <<"fib">>, <<"+", "7">>, <<>>}
MaxArgs == 4
ArgLists == UNION {[1..n -> ArgSamples] : n \in 0..MaxArgs}

\* The parent adds the arguments of a child to the command
\* `this_executable`, and the child parses its env::args().
RoundTrip(iterations, is_baseline, id) ==
    /\ mode = None
    /\ run = 0
    /\ calc = Nothing
    /\ LET pushed == [iterations |-> iterations, is_baseline |-> is_baseline, id |-> id]
           args == <<(<<"yab">>)>> \o push_args(pushed)
       IN  calc' = [pushed |-> pushed, args |-> args, parsed |-> parse_args(args)]
    /\ UNCHANGED <<options, named_baseline, exit, regressed_benches, saver_stats, saved,
                   should_fail, fs, run, mode, profile, next, job, permits, events, output,
                   reported, lastCurrent, dirty>>

\* The binary is started with some arguments, or with none at all.
ParseArgs(args) ==
    /\ mode = None
    /\ run = 0
    /\ calc = Nothing
    /\ calc' = [args |-> args, parsed |-> parse_args(args)]
    /\ UNCHANGED <<options, named_baseline, exit, regressed_benches, saver_stats, saved,
                   should_fail, fs, run, mode, profile, next, job, permits, events, output,
                   reported, lastCurrent, dirty>>

MarkerNext ==
    \/ \E iterations \in MarkerIterations, is_baseline \in BOOLEAN, id \in MarkerIds :
           RoundTrip(iterations, is_baseline, id)
    \/ \E rest \in ArgLists : ParseArgs(<<(<<"yab">>)>> \o rest)
    \/ ParseArgs(<<>>)

SpecMarker == EstimateInit /\ [][MarkerNext]_vars

(* ------------- cachegrind.rs: the lines of an output file -------------- *)

\* A line of an output file is [prefix, tokens]: the prefix the loop of
\* CachegrindOutput::read strips ("events:", "summary:", "fl=", "fn=", or ""
\* for any other line) and the whitespace-separated tokens of the rest, each
\* a text.
Line(prefix, tokens) == [prefix |-> prefix, tokens |-> tokens]

Some(v) == [some |-> v]

ParseError(message) == [ok |-> FALSE, error |-> message]

\* The tokens parsed as u64, an error at the first that is none.
ParseNumbers(tokens) ==
    IF \E i \in 1..Len(tokens) : ~ParseU64(tokens[i]).ok THEN Err
    ELSE Ok([i \in 1..Len(tokens) |-> ParseU64(tokens[i]).value])

\* A reader that pairs events with numbers without comparing their counts.
SummaryStatsUnchecked(declared, summary) ==
    LET st == StatsRead(SummaryByEvent(declared, summary)) IN
    IF st.ok THEN Ok(st.value) ELSE ParseError("missing summary for event")

\* The end of CachegrindOutput::read: the counts of events and of numbers
\* are compared, then the summary is read from the map of events.
SummaryStats(declared, summary) ==
    IF Len(declared) # Len(summary) THEN ParseError("mismatch between events and summary")
    ELSE LET st == StatsRead(SummaryByEvent(declared, summary)) IN
         IF st.ok THEN Ok(st.value) ELSE ParseError("missing summary for event")

\* CachegrindOutput::read after the loop over the lines.
ReadSummary(declared, summary_line, breakdown) ==
    IF declared = Nothing THEN ParseError("no events")
    ELSE IF summary_line = Nothing THEN ParseError("no summary")
    ELSE LET nums == ParseNumbers(summary_line.some) IN
         IF ~nums.ok THEN ParseError("summary is not an u64")
         ELSE LET st == SummaryStats(declared.some, nums.value) IN
              IF ~st.ok THEN st ELSE Ok(CachegrindOutput(st.value, breakdown))

\* A data row of a function: the branch of the loop taken once the events
\* and a function name are known.
ReadRow(declared, function, numbers, breakdown) ==
    IF Len(numbers) # Len(declared) + 1 THEN ParseError("mismatch between events and stats")
    ELSE LET nums == ParseNumbers(Tail(numbers)) IN
         IF ~nums.ok THEN ParseError("stat is not an u64")
         ELSE LET st == StatsRead(SummaryByEvent(declared, nums.value)) IN
              IF ~st.ok THEN ParseError("missing summary for event")
              ELSE LET old == IF function \in DOMAIN breakdown
                              THEN breakdown[function] ELSE StatsDefault
                   IN  Ok([f \in DOMAIN breakdown \cup {function} |->
                              IF f = function THEN StatsAdd(old, st.value)
                              ELSE breakdown[f]])

\* The loop of CachegrindOutput::read over the lines; it ends at the first
\* summary line.
RECURSIVE ReadLines(_, _)
ReadLines(lines, st) ==
    IF lines = <<>> THEN ReadSummary(st.events, Nothing, st.breakdown)
    ELSE LET line == Head(lines) IN
         IF line.prefix = "events:"
         THEN IF st.events # Nothing THEN ParseError("events are redefined")
              ELSE ReadLines(Tail(lines), [st EXCEPT !.events = Some(line.tokens)])
         ELSE IF line.prefix = "summary:"
         THEN ReadSummary(st.events, Some(line.tokens), st.breakdown)
         ELSE IF line.prefix = "fl="
         THEN ReadLines(Tail(lines),
                        [st EXCEPT !.filename = IF line.tokens = <<(<<"???">>)>>
                                                THEN Nothing ELSE Some(line.tokens)])
         ELSE IF line.prefix = "fn="
         THEN ReadLines(Tail(lines), [st EXCEPT !.function_name = Some(line.tokens)])
         ELSE IF st.events # Nothing /\ st.function_name # Nothing
         THEN LET row == ReadRow(st.events.some,
                                 [filename |-> st.filename, name |-> st.function_name.some],
                                 line.tokens, st.breakdown)
              IN  IF ~row.ok THEN row
                  ELSE ReadLines(Tail(lines), [st EXCEPT !.breakdown = row.value])
         ELSE ReadLines(Tail(lines), st)

\* CachegrindOutput::read
ReadText(lines) ==
    ReadLines(lines, [events |-> Nothing, filename |-> Nothing, function_name |-> Nothing,
                      breakdown |-> EmptyMap])

Reverse(seq) == [i \in 1..Len(seq) |-> seq[Len(seq) + 1 - i]]
Rotate(seq) == Tail(seq) \o <<Head(seq)>>

\* Events lines: Ir alone, once and twice; another event alone; none; the
\* nine in the simulator's order, reversed, rotated and with two columns
\* exchanged; eight of the nine; the nine and a tenth; the nine with Ir
\* repeated; two of them.
EventLines ==
    {<<"Ir">>, <<"Ir", "Ir">>, <<"Dr">>, <<>>, NineEvents, Reverse(NineEvents),
     Rotate(NineEvents), [NineEvents EXCEPT ![1] = "Dw", ![7] = "Ir"],
     Tail(NineEvents), SubSeq(NineEvents, 1, 8), NineEvents \o <<"Bc">>,
     <<"Bc">> \o NineEvents, NineEvents \o <<"Ir">>, <<"Ir", "I1mr">>}

\* The numbers of a line: column i holds first + i.
Columns(n, first) == [i \in 1..n |-> to_string(first + i)]

MaxFirst == 8

\* Summary lines for n events: as many numbers, one fewer, one more, and one
\* token that is no number.
SummaryLines(n) ==
    {Columns(k, first) : k \in {m \in {n - 1, n, n + 1} : m >= 0}, first \in {0, MaxFirst}}
        \cup {IF n = 0 THEN <<(<<"x">>)>> ELSE [Columns(n, 0) EXCEPT ![n] = <<"x">>]}

FnLine == Line("fn=", <<(<<"fib">>)>>)

\* The lines between the events line and the summary line, for n events.
RowLines(n) ==
    {<<>>,
     <<FnLine, Line("", <<(<<"0">>)>> \o Columns(n, 1))>>,
     <<Line("fl=", <<(<<"???">>)>>), FnLine, Line("", <<(<<"0">>)>> \o Columns(n, 1)),
       Line("fl=", <<(<<"lib.rs">>)>>), FnLine, Line("", <<(<<"7">>)>> \o Columns(n, 2))>>,
     <<Line("", Columns(2, 0))>>,
     <<FnLine, Line("", Columns(n, 1))>>,
     <<Line("events:", <<"Ir">>)>>}

\* Lines that follow the summary line.
TrailingLines ==
    {<<>>,
     <<Line("summary:", Columns(1, 5))>>,
     <<Line("events:", NineEvents), Line("summary:", Columns(9, 5))>>,
     <<FnLine, Line("", <<(<<"x">>)>>)>>,
     <<Line("", <<(<<"\n">>)>>)>>}

\* An output file is read.
ReadOutput(lines) ==
    /\ mode = None
    /\ run = 0
    /\ calc = Nothing
    /\ calc' = [lines |-> lines, output |-> ReadText(lines)]
    /\ UNCHANGED <<options, named_baseline, exit, regressed_benches, saver_stats, saved,
                   should_fail, fs, run, mode, profile, next, job, permits, events, output,
                   reported, lastCurrent, dirty>>

LinesNext ==
    \/ \E ev \in EventLines : \E sm \in SummaryLines(Len(ev)), rows \in RowLines(Len(ev)),
             trailing \in TrailingLines :
           ReadOutput(<<Line("", <<(<<"desc:">>)>>), Line("events:", ev)>> \o rows
                          \o <<Line("summary:", sm)>> \o trailing)
    \/ \E ev \in EventLines, trailing \in TrailingLines :
           ReadOutput(<<Line("summary:", Columns(Len(ev), 0)), Line("events:", ev)>>
                          \o trailing)
    \/ \E ev \in EventLines : \E rows \in RowLines(Len(ev)) :
           ReadOutput(<<Line("events:", ev)>> \o rows)

SpecLines == EstimateInit /\ [][LinesNext]_vars

(* ------------- cachegrind.rs: the arithmetic of stats ------------------ *)

\* Largest scalar of the multiplications.
MaxScalar == 3

\* Data points to compute with: zero, ordered ones, and one with misses but
\* no accesses (as a saturating subtraction leaves it).
PointSamples ==
    {DataPoint(0, 0, 0), DataPoint(2, 1, 0), DataPoint(2, 2, 1), DataPoint(3, 1, 1),
     DataPoint(0, 1, 1)}

FullSamples == {FullStats(p, q, r) : p \in PointSamples, q \in PointSamples, r \in PointSamples}

StatsSamples ==
    {Full(FullStats(p, q, q)) : p \in PointSamples, q \in PointSamples}
        \cup {Simple(n) : n \in 0..2}

\* The outcome of a u64 subtraction that underflows: a panic in a build with
\* overflow checks, a wrapped value otherwise.
Overflow == [overflow |-> TRUE]

\* A summary that counts the L1 misses of instructions twice.
AccessSummaryFromMisses(stats) ==
    LET ram_accesses == stats.instructions.l3_misses + stats.data_reads.l3_misses
                            + stats.data_writes.l3_misses
        at_least_l3_hits == stats.instructions.l1_misses + stats.data_reads.l1_misses
                                + stats.data_writes.l1_misses
        total_accesses == stats.instructions.total + stats.data_reads.total
                              + stats.data_writes.total
    IN  IF at_least_l3_hits < ram_accesses \/ total_accesses < at_least_l3_hits
        THEN Overflow
        ELSE [instructions |-> stats.instructions.total,
              l1_hits |-> total_accesses - at_least_l3_hits - stats.instructions.l1_misses,
              l3_hits |-> at_least_l3_hits - ram_accesses,
              ram_accesses |-> ram_accesses]

\* impl From<FullCachegrindStats> for AccessSummary
AccessSummaryFrom(stats) ==
    LET ram_accesses == stats.instructions.l3_misses + stats.data_reads.l3_misses
                            + stats.data_writes.l3_misses
        at_least_l3_hits == stats.instructions.l1_misses + stats.data_reads.l1_misses
                                + stats.data_writes.l1_misses
        total_accesses == stats.instructions.total + stats.data_reads.total
                              + stats.data_writes.total
    IN  IF at_least_l3_hits < ram_accesses \/ total_accesses < at_least_l3_hits
        THEN Overflow
        ELSE [instructions |-> stats.instructions.total,
              l1_hits |-> total_accesses - at_least_l3_hits,
              l3_hits |-> at_least_l3_hits - ram_accesses,
              ram_accesses |-> ram_accesses]

\* AccessSummary::estimated_cycles
estimated_cycles(summary) ==
    summary.l1_hits + 5 * summary.l3_hits + 35 * summary.ram_accesses

\* lhs - rhs for two outputs: the function f is in both breakdowns, g in the
\* left one only (with zero or non-zero stats), h in the right one only.
Subtract(a, c, b) ==
    /\ mode = None
    /\ run = 0
    /\ calc = Nothing
    /\ LET lhs == CachegrindOutput(a, [f \in {"f", "g"} |-> IF f = "f" THEN a ELSE b])
           rhs == CachegrindOutput(c, [f \in {"f", "h"} |-> IF f = "f" THEN c ELSE a])
       IN  calc' = [lhs |-> lhs, rhs |-> rhs, diff |-> OutputSub(lhs, rhs)]
    /\ UNCHANGED <<options, named_baseline, exit, regressed_benches, saver_stats, saved, should_fail, fs, run,
                   mode, profile, next, job, permits, events, output, reported, lastCurrent,
                   dirty>>

\* AccessSummary::from(stats) and its estimated cycles.
Summarize(stats) ==
    /\ mode = None
    /\ run = 0
    /\ calc = Nothing
    /\ LET summary == AccessSummaryFrom(stats)
       IN  calc' = [stats |-> stats, access |-> summary,
                    cycles |-> IF summary = Overflow THEN Nothing
                               ELSE [value |-> estimated_cycles(summary)]]
    /\ UNCHANGED <<options, named_baseline, exit, regressed_benches, saver_stats, saved, should_fail, fs, run,
                   mode, profile, next, job, permits, events, output, reported, lastCurrent,
                   dirty>>

\* stats * k
Multiply(stats, k) ==
    /\ mode = None
    /\ run = 0
    /\ calc = Nothing
    /\ calc' = [factor |-> stats, scalar |-> k, product |-> FullMul(stats, k)]
    /\ UNCHANGED <<options, named_baseline, exit, regressed_benches, saver_stats, saved, should_fail, fs, run,
                   mode, profile, next, job, permits, events, output, reported, lastCurrent,
                   dirty>>

StatsNext ==
    \/ \E a \in StatsSamples, c \in StatsSamples, b \in {Simple(0), Simple(1)} :
           Subtract(a, c, b)
    \/ \E stats \in FullSamples : Summarize(stats)
    \/ \E stats \in FullSamples, k \in 0..MaxScalar : Multiply(stats, k)

SpecStats == EstimateInit /\ [][StatsNext]_vars

(* ------------- printer.rs: the access summary of a difference --------- *)

\* Data points as a simulator counts them: l3_misses <= l1_misses <= total.
OrderedPoints ==
    {p \in PointSamples : p.l3_misses <= p.l1_misses /\ p.l1_misses <= p.total}

\* The output file of a child with these counters in its summary.
SummaryText(p, q, r, is_baseline) ==
    [cmd |-> [iterations |-> 2, is_baseline |-> is_baseline],
     lines |-> {"events", "summary"}, events |-> NineEvents, rows |-> <<>>,
     summary |-> FullToNums(FullStats(p, q, r))]

\* `full - baseline` of the two parsed outputs, as run_benchmark publishes it
\* and report_benchmark_result prints it, and AccessSummary::from of its
\* summary in full_diff.
SummarizeDifference(full, baseline) ==
    /\ mode = None
    /\ run = 0
    /\ calc = Nothing
    /\ CachegrindOutputRead(full).ok /\ CachegrindOutputRead(baseline).ok
    /\ LET stats == OutputSub(CachegrindOutputRead(full).value,
                              CachegrindOutputRead(baseline).value)
       IN  calc' = [full |-> CachegrindOutputRead(full).value.summary.full,
                    baseline |-> CachegrindOutputRead(baseline).value.summary.full,
                    difference |-> stats.summary.full,
                    access_summary |-> AccessSummaryFrom(stats.summary.full)]
    /\ UNCHANGED <<options, named_baseline, exit, regressed_benches, saver_stats, saved,
                   should_fail, fs, run, mode, profile, next, job, permits, events, output,
                   reported, lastCurrent, dirty>>

DifferenceNext ==
    \E p1 \in OrderedPoints, q1 \in OrderedPoints, r1 \in OrderedPoints,
       p2 \in OrderedPoints, q2 \in OrderedPoints, r2 \in OrderedPoints :
        SummarizeDifference(SummaryText(p1, q1, r1, FALSE), SummaryText(p2, q2, r2, TRUE))

SpecDifference == EstimateInit /\ [][DifferenceNext]_vars

(* ------------- cachegrind.rs: the instrumented child ------------------- *)

\* Largest iteration count of the children.
MaxChildIter == 5

\* A harness whose captures terminate in every iteration.
CaptureBehaviorEveryCall(i, iterations, is_baseline) ==
    IF is_baseline THEN "TerminateOnStart" ELSE "TerminateOnEnd"

\* run_instrumented: the behavior of the capture handed to iteration i.
CaptureBehavior(i, iterations, is_baseline) ==
    IF i # iterations THEN "NoOp"
    ELSE IF is_baseline THEN "TerminateOnStart" ELSE "TerminateOnEnd"

\* Capture::start: the process exits for TerminateOnStart, else the guard is
\* returned and the action of Capture::measure runs.
AfterStart(behavior) == IF behavior = "TerminateOnStart" THEN "exited" ELSE "body"

\* A guard that never terminates the process.
AfterBodyNoExit(behavior) == "drop"

\* impl Drop for CaptureGuard, at the end of Capture::measure: the process
\* exits for TerminateOnEnd; else measure returns the output, which the
\* closure of Bencher::bench drops.
AfterBody(behavior) == IF behavior = "TerminateOnEnd" THEN "exited" ELSE "drop"

\* A harness that returns to its caller after the loop.
AfterLoopReturns == "returned"

\* run_instrumented after the last iteration: stop_instrumentation() and
\* process::exit(0).
AfterLoop == "exited"

\* A child right after it entered run_instrumented: no closure call yet, no
\* capture handed out, no stop marker, not exited.
NewChild ==
    [i |-> 0, pc |-> "loop", trace |-> <<>>, captures |-> <<>>, stop |-> 0, via |-> "none"]

\* The closures of a benchmark: one that measures through Capture::measure
\* (or starts the capture and drops the guard at the end of a scope), one
\* that never starts its capture, and one that starts it and leaks the guard.
Closures == {"measure", "none", "leak"}

\* The baseline and the full child of a benchmark are started with the same
\* number of iterations.
ChildrenStart(iterations) ==
    /\ mode = None
    /\ run = 0
    /\ calc' = [iterations |-> iterations, closure |-> "measure", instrumentation |-> TRUE,
                child |-> [is_baseline \in BOOLEAN |-> NewChild]]
    /\ UNCHANGED <<options, named_baseline, exit, regressed_benches, saver_stats, saved, should_fail, fs, run,
                   mode, profile, next, job, permits, events, output, reported, lastCurrent,
                   dirty>>

\* One step of a child inside run_instrumented: the loop head (the capture
\* of the iteration is made and the closure called), Capture::start, the
\* benchmarked function, the drop of the guard, the code of the closure
\* after the capture (for Bencher::bench the drop of the output) and the push
\* to `outputs`.  With the `instrumentation` feature the stop marker is
\* emitted in the statement before each process::exit(0).
ChildStep(is_baseline) ==
    /\ calc # Nothing
    /\ "child" \in DOMAIN calc
    /\ LET c == calc.child[is_baseline]
           behavior == CaptureBehavior(c.i, calc.iterations, is_baseline)
           to ==
               CASE c.pc = "loop" ->
                        IF c.i = calc.iterations THEN [c EXCEPT !.pc = AfterLoop]
                        ELSE [c EXCEPT !.i = @ + 1, !.pc = "start",
                                       !.captures =
                                           Append(@, CaptureBehavior(c.i + 1, calc.iterations,
                                                                     is_baseline))]
                 [] c.pc = "start" ->
                        IF calc.closure = "none" THEN [c EXCEPT !.pc = "push"]
                        ELSE [c EXCEPT !.pc = AfterStart(behavior)]
                 [] c.pc = "body" ->
                        [c EXCEPT !.pc = IF calc.closure = "leak" THEN "drop" ELSE "guard",
                                  !.trace = Append(@, "body")]
                 [] c.pc = "guard" -> [c EXCEPT !.pc = AfterBody(behavior)]
                 [] c.pc = "drop" -> [c EXCEPT !.pc = "push", !.trace = Append(@, "drop")]
                 [] c.pc = "push" -> [c EXCEPT !.pc = "loop"]
           step == IF to.pc = "exited"
                   THEN [to EXCEPT !.via = c.pc,
                                   !.stop = IF calc.instrumentation THEN @ + 1 ELSE @]
                   ELSE to
       IN  /\ c.pc \in {"loop", "start", "body", "guard", "drop", "push"}
           /\ calc' = [calc EXCEPT !.child[is_baseline] = step]
    /\ UNCHANGED <<options, named_baseline, exit, regressed_benches, saver_stats, saved, should_fail, fs, run,
                   mode, profile, next, job, permits, events, output, reported, lastCurrent,
                   dirty>>

ChildNext ==
    \/ \E iterations \in 1..MaxChildIter : ChildrenStart(iterations)
    \/ \E is_baseline \in BOOLEAN : ChildStep(is_baseline)

SpecChild == EstimateInit /\ [][ChildNext]_vars

\* The children of a benchmark for any closure, any iteration count from 0
\* and both builds.
HarnessStart(iterations, closure, instrumentation) ==
    /\ mode = None
    /\ run = 0
    /\ calc' = [iterations |-> iterations, closure |-> closure,
                instrumentation |-> instrumentation,
                child |-> [is_baseline \in BOOLEAN |-> NewChild]]
    /\ UNCHANGED <<options, named_baseline, exit, regressed_benches, saver_stats, saved, should_fail, fs, run,
                   mode, profile, next, job, permits, events, output, reported, lastCurrent,
                   dirty>>

HarnessNext ==
    \/ \E iterations \in 0..MaxChildIter, closure \in Closures, instrumentation \in BOOLEAN :
           HarnessStart(iterations, closure, instrumentation)
    \/ \E is_baseline \in BOOLEAN : ChildStep(is_baseline)

SpecHarness == EstimateInit /\ [][HarnessNext]_vars

(* -------------- the reporters over a range of options ------------------ *)

\* `--threshold` values around the regressions of the named baseline.
Thresholds == {[num |-> 1, den |-> 100], [num |-> 4, den |-> 100], DefaultThreshold}

\* Filters on the whole id, on a capture and on a part of the text.
ReportIdMatchers ==
    {AnyId, Exact(<<"fib">>), Exact(<<"rng", "10000", "sum">>), Regex(<<"sum">>)}

\* One job, the default warm-up; every combination of `--baseline`,
\* `--threshold`, `--save-baseline`, `--breakdown` and the filters.
ReportOptions ==
    {[warm_up_instructions |-> 1000000, max_iterations |-> 1000, jobs |-> 1,
      baseline |-> nb, id_matcher |-> m, threshold |-> t, save_baseline |-> sb,
      breakdown |-> bd] :
        nb \in BOOLEAN, m \in ReportIdMatchers, t \in Thresholds, sb \in BOOLEAN,
        bd \in BOOLEAN}

ReportInit == options \in {o \in ReportOptions : o.baseline \/ o.threshold = DefaultThreshold}
              /\ Fresh

\* Between two processes the final full output of a benchmark is truncated
\* (an unreadable result file for the next process).
Damage(b) ==
    /\ mode = None
    /\ fs[final_full_path(b)] # NoFile
    /\ fs[final_full_path(b)].text # PartialText
    /\ fs' = [fs EXCEPT ![final_full_path(b)].text = PartialText]
    /\ UNCHANGED <<options, named_baseline, calc, exit, regressed_benches, saver_stats, saved, should_fail,
                   run, mode, profile, next, job, permits, events, output, reported,
                   lastCurrent, dirty>>

ReportNext ==
    \/ \E p \in Profiles : StartProcess("bench", p)
    \/ StartProcess("print", "main")
    \/ StartProcess("test", "main")
    \/ \E b \in Benches : Skip(b)
    \/ \E b \in Benches, panics \in BOOLEAN : Test(b, panics)
    \/ \E b \in Benches : Register(b)
    \/ \E b \in Benches : StepEnsureBaseline(b)
    \/ \E b \in Benches : StepBackupBaseline(b)
    \/ \E b \in Benches : StepBackupFull(b)
    \/ \E b \in Benches : StepCalibrate(b)
    \/ \E b \in Benches : StepBaseline(b)
    \/ \E b \in Benches : StepFull(b)
    \/ \E b \in Benches, child \in FailedChildren : ChildFailure(b, child)
    \/ \E b \in Benches : StepRenameBaseline(b)
    \/ \E b \in Benches : StepRenameFull(b)
    \/ \E b \in Benches : StepOk(b)
    \/ \E b \in Benches : StepPrint(b)
    \/ Finish
    \/ ExitFatal
    \/ \E partial \in BOOLEAN : Kill(partial)
    \/ \E b \in Benches : Damage(b)

SpecReport == ReportInit /\ [][ReportNext]_vars

(* ------------------------------ properties ----------------------------- *)

\* C1: with the linear simulator, the `stats` a measuring process reports for
\* a benchmark (full - baseline) are exactly the stats of one body of that
\* benchmark, whatever the warm-up configuration and the iteration estimate.
C1_OneBody ==
    \A b \in Benches :
        (mode = "bench" /\ output[b] # Nothing)
            => output[b].stats.summary = Full(AllStatsGet(b, profile))

\* C1 witness: one process has reported a benchmark measured with an
\* estimate of 1 (the calibration output is the baseline) and a benchmark
\* measured with a larger estimate.
C1_Witness ==
    /\ mode = "bench"
    /\ \E b \in Benches :
           output[b] # Nothing /\ job[b].estimated_iterations = 1
    /\ \E b \in Benches :
           output[b] # Nothing /\ job[b].estimated_iterations > 1

\* e is floor(w / t) clamped to [1, m], stated without the division.
IsClampedFloor(e, w, t, m) ==
    /\ e \in 1..m
    /\ e * t <= w \/ e = 1
    /\ w < (e + 1) * t \/ e = m
    /\ w < t => e = 1

\* C2: the iteration estimate is floor(warm_up_instructions /
\* total_instructions) clamped to [1, max_iterations]: 1 when the warm-up is
\* below the calibration total, and 200 for 1_000_000 / 5_000 under the cap
\* 1_000, in which case the baseline and the full child run 201 iterations.
C2_Estimate ==
    /\ calc # Nothing =>
           /\ IsClampedFloor(calc.estimated_iterations, calc.warm_up_instructions,
                             calc.total_instructions, calc.max_iterations)
           /\ (calc.warm_up_instructions = 1000000 /\ calc.total_instructions = 5000
                   /\ calc.max_iterations = 1000) => calc.estimated_iterations = 200
    /\ \A b \in Benches :
           job[b].estimated_iterations # 0 =>
               /\ IsClampedFloor(job[b].estimated_iterations, options.warm_up_instructions,
                                 job[b].calibration, options.max_iterations)
               /\ (options.warm_up_instructions = 1000000 /\ job[b].calibration = 5000
                       /\ options.max_iterations = 1000) =>
                      /\ job[b].estimated_iterations = 200
                      /\ job[b].pc = "full" =>
                             fs[baseline_path(b)].text.cmd =
                                 [iterations |-> 201, is_baseline |-> TRUE]
                      /\ job[b].pc = "rename_baseline" =>
                             /\ fs[baseline_path(b)].text.cmd =
                                    [iterations |-> 201, is_baseline |-> TRUE]
                             /\ fs[full_path(b)].text.cmd =
                                    [iterations |-> 201, is_baseline |-> FALSE]

\* C2 witness: the calibration reported 5_000 instructions, the estimate is
\* 200 and both children have written their output with 201 iterations.
C2_Witness ==
    /\ job[1].pc = "rename_baseline"
    /\ job[1].calibration = 5000
    /\ job[1].estimated_iterations = 200
    /\ fs[baseline_path(1)].text.cmd.iterations = 201
    /\ fs[full_path(1)].text.cmd.iterations = 201

\* A process writes files carrying its run number: the file at path p was
\* written by the running process and parses.
WrittenByThisRun(f, p) ==
    /\ f[p] # NoFile
    /\ f[p].run = run
    /\ CachegrindOutputRead(f[p].text).ok

\* C3: during a measuring process the final files of a benchmark change only
\* by the two renames, which come after the calibration, baseline and full
\* children all succeeded (the children write the temporary paths only); so
\* a process that fails or is killed before the first rename leaves the final
\* files as they were, and a following print reports the stats of the last
\* completed measurement.
C3_FinalsOnlyPublished ==
    /\ [][\A b \in Benches :
            /\ fs'[final_baseline_path(b)] # fs[final_baseline_path(b)] =>
                   /\ mode = "bench" /\ job[b].pc = "rename_baseline"
                   /\ job[b].stats # Nothing
                   /\ WrittenByThisRun(fs, baseline_path(b))
                   /\ WrittenByThisRun(fs, full_path(b))
                   /\ fs'[final_baseline_path(b)] = fs[baseline_path(b)]
            /\ fs'[final_full_path(b)] # fs[final_full_path(b)] =>
                   /\ mode = "bench" /\ job[b].pc = "rename_full"
                   /\ job[b].stats # Nothing
                   /\ WrittenByThisRun(fs, final_baseline_path(b))
                   /\ WrittenByThisRun(fs, full_path(b))
                   /\ fs'[final_full_path(b)] = fs[full_path(b)]]_vars
    /\ [](\A b \in Benches :
            (mode = "print" /\ next > b /\ Selected(b) /\ ~dirty[b])
                => IF lastCurrent[b] = Nothing THEN output[b] = Nothing
                   ELSE output[b] # Nothing /\ output[b].stats = lastCurrent[b])

\* C3 witness: a print reports the stats of the last completed measurement
\* while the temporary baseline file of a later, unfinished process is still
\* in the directory.
C3_Witness ==
    /\ mode = "print"
    /\ \E b \in Benches :
           /\ ~dirty[b]
           /\ output[b] # Nothing
           /\ output[b].stats = lastCurrent[b]
           /\ fs[baseline_path(b)] # NoFile
           /\ fs[baseline_path(b)].run > fs[final_baseline_path(b)].run

PublishedPcs == {"ok", "release", "notify", "done"}
BackedUpPcs == {"calibrate", "baseline", "full", "rename_baseline"}

C5_NoDataAfterInterruptedPublish ==
    \A b \in Benches :
        (/\ mode = "print" /\ next > b /\ Selected(b)
         /\ fs[final_baseline_path(b)] # NoFile
         /\ fs[final_full_path(b)] # NoFile
         /\ fs[final_baseline_path(b)].run > fs[final_full_path(b)].run)
            => (output[b] = Nothing /\ events[b] = <<"no data">>)

\* C6: without a named baseline, a completed measurement publishes as
\* `prev_stats` the `stats` of the preceding completed measurement of the
\* benchmark, and nothing when there is none (no interrupted publication in
\* between).
C6_PreviousIsLastCurrent ==
    [][\A b \in Benches :
          (/\ mode = "bench" /\ mode' = "bench"
           /\ job[b].pc = "ok" /\ job'[b].pc # "ok"
           /\ ~options.baseline /\ ~dirty[b])
              => output'[b] = BenchmarkOutput(job[b].stats, lastCurrent[b])]_vars

\* C6 witness: a later measurement has published previous stats that are the
\* stats of the measurement before it and differ from its own.
C6_Witness ==
    /\ mode = "bench"
    /\ ~options.baseline
    /\ run >= 2
    /\ \E b \in Benches :
           /\ output[b] # Nothing
           /\ output[b].prev_stats # Nothing
           /\ output[b].prev_stats # output[b].stats
           /\ fs[old_baseline_path(b)].run = run - 1
           /\ fs[old_full_path(b)].run = run - 1

\* The previous stats are loaded by a measuring process without a named
\* baseline and the process has not renamed yet.
LoadedPrevious(b) ==
    /\ mode = "bench"
    /\ ~options.baseline
    /\ job[b].pc \in BackedUpPcs
    /\ job[b].prev_stats # Nothing

\* C7 (as claimed): after the previous stats were loaded, each final file
\* has been moved to `<path>.old` and is absent from its final path until the
\* process publishes.
C7_MovedToOld ==
    \A b \in Benches :
        LoadedPrevious(b) =>
            /\ fs[old_baseline_path(b)] # NoFile
            /\ fs[old_full_path(b)] # NoFile
            /\ fs[final_baseline_path(b)] = NoFile
            /\ fs[final_full_path(b)] = NoFile

\* C7 (amended): after the previous stats (full - baseline of the final
\* files) were loaded, each final file has been copied to `<path>.old`: the
\* `.old` file holds the prior content and the same file is still at its
\* final path until the process publishes.
C7_CopiedToOld ==
    \A b \in Benches :
        LoadedPrevious(b) =>
            /\ fs[old_baseline_path(b)] # NoFile
            /\ fs[old_full_path(b)] # NoFile
            /\ fs[old_baseline_path(b)].run < run
            /\ fs[old_full_path(b)].run < run
            /\ fs[final_baseline_path(b)] = fs[old_baseline_path(b)]
            /\ fs[final_full_path(b)] = fs[old_full_path(b)]
            /\ job[b].prev_stats =
                   OutputSub(CachegrindOutputRead(fs[old_full_path(b)].text).value,
                             CachegrindOutputRead(fs[old_baseline_path(b)].text).value)

\* C7 witness: the full child is about to run after the prior final files
\* were loaded and backed up.
C7_Witness == \E b \in Benches : LoadedPrevious(b) /\ job[b].pc = "full"

\* The benchmarks whose job holds a permit, and the pcs of a job between
\* taking its permit and returning it.
Holders == {b \in Benches : job[b].permit}
RunningPcs ==
    {"prev_stats", "backup_full", "calibrate", "baseline", "full",
     "rename_baseline", "rename_full", "ok", "fatal"}

\* C8: with `jobs` = N the free permits stay within 0..N, free permits plus
\* held permits are N in every state, and with worker threads a job runs its
\* measurement only while it holds a permit, so at most N jobs run at once.
C8_PermitsConserved ==
    /\ permits \in 0..options.jobs
    /\ permits + Cardinality(Holders) = options.jobs
    /\ Cardinality({b \in Benches : job[b].pc \in RunningPcs}) <= options.jobs
    /\ options.jobs > 1 => \A b \in Benches : job[b].pc \in RunningPcs => job[b].permit

\* C8 witness: every permit is held by a running job and another job waits.
C8_Witness ==
    /\ options.jobs > 1
    /\ permits = 0
    /\ Cardinality({b \in Benches : job[b].pc = "full" /\ job[b].permit}) = options.jobs
    /\ \E w \in Benches : job[w].pc = "waiting"

\* C9: with jobs = 1 there is no worker thread and no permit is taken; a
\* benchmark is measured to its `ok` inside its registration, before the next
\* benchmark is registered, so the matching benchmarks are reported in
\* registration order and the events so far are a function of the progress.
C9_Synchronous ==
    (options.jobs = 1 /\ mode = "bench") =>
        /\ permits = 1
        /\ \A b \in Benches :
               /\ ~job[b].permit
               /\ job[b].pc \notin {"acquire", "waiting", "release", "notify"}
               /\ job[b].pc \notin {"idle", "done"} => next = b
               /\ (b < next /\ Selected(b)) =>
                      /\ job[b].pc = "done"
                      /\ events[b] = <<"start", "baseline">> \o OkEvents(output[b])
               /\ b > next => job[b].pc = "idle" /\ events[b] = <<>>
        /\ Len(reported) =
               Cardinality({b \in Benches : b < next /\ Selected(b)})
        /\ \A i \in 1..Len(reported) :
               /\ reported[i] < next
               /\ Selected(reported[i])
               /\ \A j \in 1..Len(reported) : i < j => reported[i] < reported[j]

\* C9 witness: with jobs = 1 a benchmark in the middle of the registration
\* order is being published after all earlier ones were reported in order.
C9_Witness ==
    /\ options.jobs = 1
    /\ mode = "bench"
    /\ \E b \in Benches :
           /\ 1 < b /\ b < NumBenches
           /\ job[b].pc = "rename_full"
           /\ reported = [i \in 1..(b - 1) |-> i]

IsPrefix(s, t) == Len(s) <= Len(t) /\ \A i \in 1..Len(s) : s[i] = t[i]

\* The orders of the claim: start, calibrated, optionally the baseline, then
\* one terminal event (a fatal error may also end the events earlier).
ClaimedOrders ==
    {<<"start", "error">>} \cup
    UNION {{<<"start", "calibrated", t>>, <<"start", "calibrated", "baseline", t>>} :
              t \in {"ok", "warn", "error"}}

RunnerOrders ==
    {<<"start", "baseline", "ok">>, <<"start", "baseline", "ok", "regression">>,
     <<"start", "baseline", "error">>, <<"start", "error">>}

Range(s) == {s[i] : i \in 1..Len(s)}

\* The files of benchmark b in the output directory.
BenchPaths(b) ==
    {baseline_path(b), full_path(b), final_baseline_path(b), final_full_path(b),
     old_baseline_path(b), old_full_path(b)}

\* C11: when a child of a benchmark exits with a non-zero status, the runner
\* takes nothing from the output file (even a complete one), reports a fatal
\* error that carries the status and the captured stdout and stderr of the
\* child, and from then on spawns no child, renames nothing and reports no
\* `ok` for the benchmark; the process cannot end successfully.
C11_ChildFailureIsFatal ==
    /\ [](\A b \in Benches :
            (mode = "bench" /\ job[b].pc = "fatal") =>
                /\ job[b].stats = Nothing
                /\ output[b] = Nothing
                /\ \A i \in 1..Len(reported) : reported[i] # b
                /\ events[b] # <<>> /\ events[b][Len(events[b])] = "error"
                /\ "ok" \notin Range(events[b])
                /\ ~success(job[b].child.status) =>
                       /\ job[b].child.status \in Range(job[b].error)
                       /\ \A t \in (Range(job[b].child.stdout)
                                       \cup Range(job[b].child.stderr)) \ Whitespace :
                              t \in Range(job[b].error))
    /\ [][\A b \in Benches :
            (mode = "bench" /\ job[b].pc = "fatal") =>
                \/ mode' = None /\ exit'.status \in {"failure", "killed"}
                \/ /\ job'[b] = job[b]
                   /\ events'[b] = events[b]
                   /\ \A p \in BenchPaths(b) : fs'[p] = fs[p]]_vars
    /\ [][\A b \in Benches :
            (mode = "bench" /\ job[b].pc # "fatal" /\ job'[b].pc = "fatal") =>
                /\ job'[b].baseline = job[b].baseline
                /\ job'[b].calibration = job[b].calibration
                /\ fs'[final_baseline_path(b)] = fs[final_baseline_path(b)]
                /\ fs'[final_full_path(b)] = fs[final_full_path(b)]]_vars

\* C11 witness: the full child of a benchmark exited with a failure although
\* the simulator wrote a complete output file; the benchmark is fatal, the
\* file lies unpublished at the temporary path and the error carries the
\* captured stdout.
C11_Witness ==
    \E b \in Benches :
        /\ mode = "bench"
        /\ job[b].pc = "fatal"
        /\ ~success(job[b].child.status)
        /\ job[b].child.wrote = "valid"
        /\ WrittenByThisRun(fs, full_path(b))
        /\ ~fs[full_path(b)].text.cmd.is_baseline
        /\ fs[final_full_path(b)] = NoFile
        /\ "note" \in Range(job[b].error)
\* The entries of the regressions list for the executor b.
Recorded(b) ==
    Cardinality({i \in DOMAIN regressed_benches :
                    regressed_benches[i].id = IdToString(ExecutorId(b))})

\* The regression warnings delivered for the executor b.
RegressionWarnings(b) ==
    Cardinality({i \in DOMAIN events[b] : events[b][i] = "regression"})

\* (current - previous) / previous > threshold for the reported output of b,
\* under `--baseline` and with previous stats present.
StrictlyExceeds(b) ==
    /\ options.baseline
    /\ output[b].prev_stats # Nothing
    /\ LET current == output[b].stats.summary.full.instructions.total
           previous == output[b].prev_stats.summary.full.instructions.total
       IN  /\ previous > 0
           /\ (current - previous) * options.threshold.den
                  > options.threshold.num * previous

\* C12: while a process runs, a benchmark has one entry in the regressions
\* list and one regression warning if it was reported under `--baseline`
\* with previous stats and its relative increase of total instructions
\* strictly exceeds the threshold; otherwise it has neither an entry nor a
\* warning.
C12_RegressionRecorded ==
    mode # None =>
        \A b \in Benches :
            LET expected == IF output[b] # Nothing /\ StrictlyExceeds(b) THEN 1 ELSE 0
            IN  Recorded(b) = expected /\ RegressionWarnings(b) = expected

\* C12 witness: with a 4% threshold, a benchmark exactly 4% above the named
\* baseline and one below it are not recorded, one 51% above it is.
C12_Witness ==
    /\ mode = "bench"
    /\ options.baseline
    /\ options.threshold = [num |-> 4, den |-> 100]
    /\ \A b \in Benches : output[b] # Nothing /\ output[b].prev_stats # Nothing
    /\ output[1].stats.summary.full.instructions.total = 3900
    /\ output[1].prev_stats.summary.full.instructions.total = 3750
    /\ output[3].stats.summary.full.instructions.total
           < output[3].prev_stats.summary.full.instructions.total
    /\ Recorded(1) = 0 /\ Recorded(2) = 1 /\ Recorded(3) = 0
    /\ events[2] = <<"start", "baseline", "ok", "regression">>


\* The entries of the list of a fatal regression error for the executor b.
Listed(list, b) ==
    Cardinality({i \in DOMAIN list : list[i].id = IdToString(ExecutorId(b))})

\* C13: recording a regression leaves the process running and the benchmark
\* done, not failed; no process has an exit status before it ends; a process
\* ends with the regression error only from the shutdown after every
\* matching benchmark was processed and every job finished, the list is then
\* non-empty and names each regressed benchmark once and no other; a
\* shutdown with a non-empty list fails, and with an empty list the process
\* never ends with the regression error.
C13_RegressionFatalAtShutdown ==
    /\ [](mode # None => exit = Nothing)
    /\ [][Len(regressed_benches') > Len(regressed_benches)
            => /\ mode' = mode
               /\ exit' = Nothing
               /\ \A b \in Benches : job'[b].pc # "fatal"
               /\ Len(reported') = Len(reported) + 1]_vars
    /\ [][(mode # None /\ mode' = None)
            => /\ exit'.error = "benches have regressed"
                  => /\ exit'.status = "failure"
                     /\ regressed_benches # <<>>
                     /\ next = NumBenches + 1
                     /\ \A b \in Benches :
                            /\ job[b].pc \in {"idle", "done"}
                            /\ Selected(b) => events[b] # <<>>
                            /\ Listed(exit'.list, b) = Recorded(b)
                            /\ Recorded(b) =
                                 IF output[b] # Nothing /\ StrictlyExceeds(b) THEN 1 ELSE 0
                     /\ Len(exit'.list) = Len(regressed_benches)
               /\ (regressed_benches # <<>> /\ exit'.status = "success") => FALSE
               /\ (regressed_benches = <<>> /\ mode # "test" /\ exit'.status = "failure")
                  => \E b \in Benches : job[b].pc = "fatal"]_vars

\* C13 witness: a process ended with the regression error listing two
\* benchmarks, the second one measured after the first had regressed.
C13_Witness ==
    /\ mode = None
    /\ exit # Nothing
    /\ exit.status = "failure"
    /\ exit.error = "benches have regressed"
    /\ Len(exit.list) = 2
    /\ exit.list[1].id = <<"fib">>
    /\ exit.list[2].id = <<"rng", "10000", "gen">>
    /\ options.id_matcher = AnyId


\* The id texts of the benchmarks that reported ok in the running process.
ReportedIds == {IdToString(ExecutorId(reported[i])) : i \in DOMAIN reported}

\* C14: a process run with `--save-baseline` writes the named baseline file
\* if and only if it ends with a success, and the file then has exactly one
\* entry for each benchmark that reported ok in the process, under its id
\* text.
C14_SavedIffSuccess ==
    [][(mode # None /\ mode' = None /\ options.save_baseline)
         => /\ (saved' # NoFile) <=> (exit'.status = "success")
            /\ saved' # NoFile => DOMAIN saved'.stats = ReportedIds]_vars

\* The file of C14 is written by every shutdown that reaches the reporters'
\* final `ok`, also when the regression checker then fails the process.
C14_SavedAtShutdown ==
    [][(mode # None /\ mode' = None /\ options.save_baseline)
         => /\ (saved' # NoFile) <=>
                 (exit'.status = "success" \/ exit'.error = "benches have regressed")
            /\ saved' # NoFile => DOMAIN saved'.stats = ReportedIds]_vars

\* The run of C14 that diverges: the file was written by a process that
\* failed with the regression error.
C14_SavedByFailedProcess ==
    /\ mode = None
    /\ exit # Nothing
    /\ exit.status = "failure"
    /\ saved # NoFile
    /\ <<"rng", "10000", "gen">> \in DOMAIN saved.stats


\* The entries the saver holds are those of the benchmarks reported ok, with
\* the reported summary; without `--breakdown` the breakdown is empty, with
\* it a function is kept, unchanged, exactly when its total instructions
\* are at least `divisor`-th of the summary's: as a fraction when `exact`,
\* else with the quotient rounded down.
Keeps(fn_total, total, divisor, exact) ==
    IF exact THEN fn_total * divisor >= total ELSE fn_total >= total \div divisor

SavedEntries(divisor, exact) ==
    (mode # None /\ options.save_baseline) =>
        /\ DOMAIN saver_stats = ReportedIds
        /\ \A b \in Benches :
              output[b] # Nothing =>
                  LET entry == saver_stats[IdToString(ExecutorId(b))]
                      stats == output[b].stats
                  IN  /\ entry.summary = stats.summary
                      /\ ~options.breakdown => entry.breakdown = EmptyMap
                      /\ options.breakdown =>
                            /\ DOMAIN entry.breakdown \subseteq DOMAIN stats.breakdown
                            /\ \A f \in DOMAIN stats.breakdown :
                                  /\ f \in DOMAIN entry.breakdown
                                       <=> Keeps(total_instructions(stats.breakdown[f]),
                                                 total_instructions(stats.summary),
                                                 divisor, exact)
                                  /\ f \in DOMAIN entry.breakdown
                                       => entry.breakdown[f] = stats.breakdown[f]

Matches(canonical, b) ==
    IF canonical THEN matches(options.id_matcher, ExecutorId(b))
    ELSE matches(options.id_matcher, BenchId(b))

\* An executor that does not match has no event and no job; one that matches
\* has an event once the process has moved past it.
DispatchedState(canonical) ==
    \A b \in Benches :
        mode \in {"bench", "print"} =>
            /\ ~Matches(canonical, b) => events[b] = <<>> /\ job[b] = IdleJob
            /\ (Matches(canonical, b) /\ next > b) => events[b] # <<>>

\* No step of a process changes a file of an executor that does not match.
DispatchedStep(canonical) ==
    \A b \in Benches :
        (mode \in {"bench", "print"} /\ mode' = mode /\ ~Matches(canonical, b))
            => \A p \in BenchPaths(b) : fs'[p] = fs[p]

\* C16: an executor (a benchmark with one of its capture labels) is
\* dispatched if and only if the id filter matches its id text with the
\* capture suffix; a non-matching one has no reporter event, no child
\* process and no file access.
C16_FilterOnCanonicalText ==
    [](DispatchedState(TRUE)) /\ [][DispatchedStep(TRUE)]_vars

\* The filter of C16 as MainBencher::bench applies it: to the id text of the
\* benchmark without a capture suffix, for all its executors at once.
C16_FilterOnDeclaredId ==
    [](DispatchedState(FALSE)) /\ [][DispatchedStep(FALSE)]_vars

\* The run of C16 that diverges: `--exact rng/10000/sum` moved past the
\* executor with that id text without an event for it.
C16_ExactCaptureSkipped ==
    /\ mode = "bench"
    /\ options.id_matcher = Exact(<<"rng", "10000", "sum">>)
    /\ IdToString(ExecutorId(3)) = <<"rng", "10000", "sum">>
    /\ next = NumBenches + 1
    /\ events[3] = <<>>


\* The file at a path is missing or cannot be parsed.
Unreadable(f, path) == f[path] = NoFile \/ ~CachegrindOutputRead(f[path].text).ok

Leader(b) == \A c \in Group(b) : b <= c

\* C18: in a test process no job, child or file change exists; a benchmark
\* the process moved past has, if it matches the filter, the events of one
\* closure run (test, then ok or fail) and otherwise none, whatever happened
\* to earlier benchmarks; a run marks only its own benchmark; should_fail
\* holds exactly when some closure panicked; and the process, unless it is
\* killed, ends after the last benchmark, with a failure if and only if
\* some closure panicked.
C18_TestMode ==
    /\ [](mode = "test" =>
            /\ \A b \in Benches :
                  /\ job[b] = IdleJob
                  /\ output[b] = Nothing
                  /\ events[b] \in {<<>>, <<"test", "ok">>, <<"test", "fail">>}
                  /\ (next > b /\ Leader(b)) => (events[b] # <<>> <=> Selected(b))
                  /\ next <= b => events[b] = <<>>
            /\ should_fail <=> \E b \in Benches : events[b] = <<"test", "fail">>
            /\ exit = Nothing)
    /\ [][(mode = "test" /\ mode' = "test")
            => /\ fs' = fs
               /\ \A b \in Benches : (next # b) => events'[b] = events[b]]_vars
    /\ [][(mode = "test" /\ mode' = None /\ exit'.status # "killed")
            => /\ next = NumBenches + 1
               /\ fs' = fs
               /\ exit'.status = "failure" <=> should_fail
               /\ exit'.status = "success" <=> ~should_fail]_vars

\* C18 witness: the closure of the first benchmark panicked, the second
\* benchmark was run after it and passed, and the process is about to end.
C18_Witness ==
    /\ mode = "test"
    /\ events[1] = <<"test", "fail">>
    /\ events[2] = <<"test", "ok">>
    /\ events[3] = <<>>
    /\ should_fail
    /\ next = NumBenches + 1


\* The number of times token t occurs in a trace.
Occurrences(trace, t) == Cardinality({i \in DOMAIN trace : trace[i] = t})

\* C19: the full child exits right after its last benchmarked function
\* returned, before the output of that call is dropped; the baseline child
\* exits before the last call; both drop the outputs of exactly the
\* iterations before the last one, so that the full child runs one call more
\* than the baseline child and no drop more.
C19_NoDropInDifference ==
    (calc # Nothing /\ "child" \in DOMAIN calc) =>
        LET full == calc.child[FALSE]
            baseline == calc.child[TRUE]
            n == calc.iterations
        IN  /\ full.pc = "exited"
                => /\ full.trace # <<>>
                   /\ full.trace[Len(full.trace)] = "body"
                   /\ Occurrences(full.trace, "body") = n
                   /\ Occurrences(full.trace, "drop") = n - 1
            /\ baseline.pc = "exited"
                => /\ Occurrences(baseline.trace, "body") = n - 1
                   /\ Occurrences(baseline.trace, "drop") = n - 1
            /\ (full.pc = "exited" /\ baseline.pc = "exited")
                => /\ Occurrences(full.trace, "drop") = Occurrences(baseline.trace, "drop")
                   /\ Occurrences(full.trace, "body")
                          = Occurrences(baseline.trace, "body") + 1
                   /\ full.trace = Append(baseline.trace, "body")

\* C19 witness: both children of a run with three iterations have exited,
\* each after dropping two outputs.
C19_Witness ==
    /\ calc # Nothing
    /\ "child" \in DOMAIN calc
    /\ calc.iterations = 3
    /\ calc.child[FALSE].pc = "exited"
    /\ calc.child[TRUE].pc = "exited"
    /\ calc.child[FALSE].trace = <<"body", "drop", "body", "drop", "body">>
    /\ calc.child[TRUE].trace = <<"body", "drop", "body", "drop">>


\* l3_misses <= l1_misses <= total
Ordered(point) == point.l3_misses <= point.l1_misses /\ point.l1_misses <= point.total

\* Every data point of a summary is ordered (a summary without cache
\* simulation has none).
OrderedSummary(stats) ==
    stats.kind = "Full" =>
        /\ Ordered(stats.full.instructions)
        /\ Ordered(stats.full.data_reads)
        /\ Ordered(stats.full.data_writes)

\* C20: every data point of the summary of each output file, of each
\* reported `stats` (full - baseline) and of each reported `prev_stats`
\* satisfies l3_misses <= l1_misses <= total.
C20_OrderedCounters ==
    /\ \A p \in Paths :
          (fs[p] # NoFile /\ CachegrindOutputRead(fs[p].text).ok)
              => OrderedSummary(CachegrindOutputRead(fs[p].text).value.summary)
    /\ \A b \in Benches :
          output[b] # Nothing =>
              /\ OrderedSummary(output[b].stats.summary)
              /\ output[b].prev_stats # Nothing
                    => OrderedSummary(output[b].prev_stats.summary)


\* The part of C20 that the runner keeps: the summaries parsed from the
\* output files and the `stats` a measuring process reports have ordered
\* data points.
C20_OrderedInMeasurement ==
    /\ \A p \in Paths :
          (fs[p] # NoFile /\ CachegrindOutputRead(fs[p].text).ok)
              => OrderedSummary(CachegrindOutputRead(fs[p].text).value.summary)
    /\ \A b \in Benches :
          (mode = "bench" /\ output[b] # Nothing)
              => OrderedSummary(output[b].stats.summary)

\* The run of C20 that diverges: a print reported `stats` whose instruction
\* point has more l3 misses than l1 misses.
C20_UnorderedStats ==
    /\ mode = "print"
    /\ output[1] # Nothing
    /\ output[1].stats.summary.kind = "Full"
    /\ output[1].stats.summary.full.instructions.l3_misses
           > output[1].stats.summary.full.instructions.l1_misses

(* ------------- properties of the arithmetic of stats ------------------- *)

Monus(a, b) == IF a > b THEN a - b ELSE 0

PointMonus(p, q) ==
    [total |-> Monus(p.total, q.total), l1_misses |-> Monus(p.l1_misses, q.l1_misses),
     l3_misses |-> Monus(p.l3_misses, q.l3_misses)]

Instructions(stats) ==
    IF stats.kind = "Full" THEN stats.full.instructions.total ELSE stats.instructions

\* The saturating difference of two stats: field by field for two full
\* stats, of the instruction counts otherwise.
Difference(a, b) ==
    IF a.kind = "Full" /\ b.kind = "Full"
    THEN [kind |-> "Full",
          full |-> [instructions |-> PointMonus(a.full.instructions, b.full.instructions),
                    data_reads |-> PointMonus(a.full.data_reads, b.full.data_reads),
                    data_writes |-> PointMonus(a.full.data_writes, b.full.data_writes)]]
    ELSE [kind |-> "Simple", instructions |-> Monus(Instructions(a), Instructions(b))]

PointZero(p) == p.total = 0 /\ p.l1_misses = 0 /\ p.l3_misses = 0

AllFieldsZero(stats) ==
    IF stats.kind = "Full"
    THEN /\ PointZero(stats.full.instructions)
         /\ PointZero(stats.full.data_reads)
         /\ PointZero(stats.full.data_writes)
    ELSE stats.instructions = 0

TotalsZero(stats) ==
    IF stats.kind = "Full"
    THEN /\ stats.full.instructions.total = 0
         /\ stats.full.data_reads.total = 0
         /\ stats.full.data_writes.total = 0
    ELSE stats.instructions = 0

Subtracted == calc # Nothing /\ "diff" \in DOMAIN calc

EntryDifference(f) ==
    IF f \in DOMAIN calc.rhs.breakdown
    THEN Difference(calc.lhs.breakdown[f], calc.rhs.breakdown[f])
    ELSE calc.lhs.breakdown[f]

\* The summary and the kept entries of lhs - rhs, whatever decides which
\* entries are kept.
DifferenceOfOutputs ==
    /\ calc.diff.summary = Difference(calc.lhs.summary, calc.rhs.summary)
    /\ DOMAIN calc.diff.breakdown \subseteq DOMAIN calc.lhs.breakdown
    /\ \A f \in DOMAIN calc.diff.breakdown : calc.diff.breakdown[f] = EntryDifference(f)

Summarized == calc # Nothing /\ "access" \in DOMAIN calc

SumOfTotals ==
    calc.stats.instructions.total + calc.stats.data_reads.total + calc.stats.data_writes.total

SumOfL1Misses ==
    calc.stats.instructions.l1_misses + calc.stats.data_reads.l1_misses
        + calc.stats.data_writes.l1_misses

SumOfL3Misses ==
    calc.stats.instructions.l3_misses + calc.stats.data_reads.l3_misses
        + calc.stats.data_writes.l3_misses

\* The parts of the summary and the estimate, as C22 gives them.
PartsOfAccesses ==
    /\ calc.access.instructions = calc.stats.instructions.total
    /\ calc.access.ram_accesses = SumOfL3Misses
    /\ calc.access.l3_hits = SumOfL1Misses - calc.access.ram_accesses
    /\ calc.access.l1_hits = SumOfTotals - SumOfL1Misses
    /\ calc.cycles.value
           = calc.access.l1_hits + 5 * calc.access.l3_hits + 35 * calc.access.ram_accesses

\* C22 as stated: for every full stats the summary has ram_accesses = sum of
\* l3_misses, l3_hits = sum of l1_misses - ram_accesses, l1_hits = sum of
\* totals - sum of l1_misses, estimated cycles = l1_hits + 5 * l3_hits +
\* 35 * ram_accesses, and the sum of the totals equals l1_hits + l3_hits +
\* ram_accesses + instructions.l1_misses.
C22_PartitionWithInstructionMisses ==
    Summarized =>
        /\ calc.access # Overflow
        /\ PartsOfAccesses
        /\ SumOfTotals = calc.access.l1_hits + calc.access.l3_hits + calc.access.ram_accesses
                             + calc.stats.instructions.l1_misses

\* C22, amended: for full stats with sum of l3_misses <= sum of l1_misses
\* <= sum of totals the summary has the parts above and the sum of the
\* totals equals l1_hits + l3_hits + ram_accesses; for other stats one of
\* the two subtractions underflows.
C22_PartitionOfAccesses ==
    Summarized =>
        IF SumOfL3Misses <= SumOfL1Misses /\ SumOfL1Misses <= SumOfTotals
        THEN /\ calc.access # Overflow
             /\ PartsOfAccesses
             /\ SumOfTotals
                    = calc.access.l1_hits + calc.access.l3_hits + calc.access.ram_accesses
        ELSE calc.access = Overflow

\* A summary of stats with L1 misses of instructions, L3 hits and RAM
\* accesses.
C22_Witness ==
    /\ Summarized
    /\ calc.access # Overflow
    /\ calc.stats.instructions.l1_misses > 0
    /\ calc.access.l3_hits > 0
    /\ calc.access.ram_accesses > 0
    /\ calc.access.l1_hits > 0

Multiplied == calc # Nothing /\ "product" \in DOMAIN calc

PointTimes(p, k) ==
    [total |-> p.total * k, l1_misses |-> p.l1_misses * k, l3_misses |-> p.l3_misses * k]

\* C23 as stated: s * k is componentwise: its instructions, data_reads and
\* data_writes are those of s times k, on total, l1_misses and l3_misses.
C23_ComponentwiseProduct ==
    Multiplied =>
        /\ calc.product.instructions = PointTimes(calc.factor.instructions, calc.scalar)
        /\ calc.product.data_reads = PointTimes(calc.factor.data_reads, calc.scalar)
        /\ calc.product.data_writes = PointTimes(calc.factor.data_writes, calc.scalar)

\* What the multiplication computes: the instructions and the data reads
\* are componentwise, the data writes of the product are the data reads of
\* s times k.
C23_WritesFromReads ==
    Multiplied =>
        /\ calc.product.instructions = PointTimes(calc.factor.instructions, calc.scalar)
        /\ calc.product.data_reads = PointTimes(calc.factor.data_reads, calc.scalar)
        /\ calc.product.data_writes = PointTimes(calc.factor.data_reads, calc.scalar)

\* A product by a non-zero scalar whose data writes are not those of s.
C23_WrongWrites ==
    /\ Multiplied
    /\ calc.scalar > 0
    /\ calc.factor.data_reads # calc.factor.data_writes
    /\ calc.product.data_writes # PointTimes(calc.factor.data_writes, calc.scalar)

(* ------------- properties of the configuration ------------------------- *)

ZeroConfig == options.warm_up_instructions = 0 \/ options.max_iterations = 0

\* C24 as stated: with warm_up_instructions = 0 or max_iterations = 0 the
\* process is rejected before any benchmark runs: no child writes a file,
\* no event of a benchmark is reported, and the process exits with a
\* failure.
C24_ZeroConfigRejected ==
    ZeroConfig =>
        /\ \A b \in Benches : events[b] = <<>> /\ job[b].pc = "idle"
        /\ \A path \in Paths : fs[path] = NoFile
        /\ exit # Nothing => exit.status = "failure"

\* What the runner does with such options: with max_iterations >= 1 a zero
\* warm-up gives the estimate 1 and the benchmark is measured as any other;
\* with max_iterations = 0 the job panics after `start` and the calibration
\* child, and no process ends with a success.
C24_ZeroConfigMeasured ==
    /\ (options.warm_up_instructions = 0 /\ options.max_iterations >= 1) =>
           /\ \A b \in Benches : job[b].estimated_iterations \in {0, 1}
           /\ exit # Nothing => exit.status = "success"
    /\ options.max_iterations = 0 =>
           /\ \A b \in Benches :
                  /\ job[b].pc \in {"idle", "prev_stats", "backup_baseline", "backup_full",
                                    "calibrate", "panicked"}
                  /\ events[b] \in {<<>>, <<"start">>}
           /\ exit # Nothing => exit.status = "failure"

\* A benchmark reported ok in a process with a zero warm-up.
C24_ZeroWarmUpReported ==
    /\ options.warm_up_instructions = 0
    /\ job[1].pc = "done"
    /\ events[1] = <<"start", "baseline", "ok">>
    /\ fs[final_full_path(1)] # NoFile

(* ------------- properties of the paths --------------------------------- *)

Paired == calc # Nothing /\ "ids" \in DOMAIN calc

\* C25 as stated: two benchmark jobs that run concurrently (two
\* registrations, whatever their ids) have disjoint sets of temporary, final
\* and `.old` paths, and neither reads or overwrites a file written by the
\* other.
C25_PathsPerBench ==
    Paired =>
        /\ PathsOf(calc.ids[1]) \cap PathsOf(calc.ids[2]) = {}
        /\ calc.foreign = {}

SameText(a, b) == IdText(a) = IdText(b)

BaselineOf(a, b) == IdText(a) = IdText(b) \o <<".baseline">>

\* What the paths give: the path sets of two registrations meet exactly when
\* the ids have the same text, however it is split into name and args, or
\* when one text is the other followed by `.baseline`; only then a job meets
\* a file of the other.
C25_PathsPerText ==
    Paired =>
        /\ PathsOf(calc.ids[1]) \cap PathsOf(calc.ids[2]) # {}
               <=> \/ SameText(calc.ids[1], calc.ids[2])
                   \/ BaselineOf(calc.ids[1], calc.ids[2])
                   \/ BaselineOf(calc.ids[2], calc.ids[1])
        /\ calc.foreign # {} => PathsOf(calc.ids[1]) \cap PathsOf(calc.ids[2]) # {}

\* Two registrations whose ids differ only in the split of name and args:
\* one job has replaced the temporary baseline output of the other, and the
\* other failed to rename it.
C25_SharedPaths ==
    /\ Paired
    /\ calc.ids[1] # calc.ids[2]
    /\ SameText(calc.ids[1], calc.ids[2])
    /\ calc.foreign # {}
    /\ calc.pc[2] = "fatal"

(* ------------- properties of the children of a job --------------------- *)

ChildCmd(f, path) == f[path].text.cmd

Cmd(iterations, is_baseline) == [iterations |-> iterations, is_baseline |-> is_baseline]

\* The temporary files of a job between its children.
ChildrenState(b) ==
    /\ job[b].pc = "baseline" =>
           /\ job[b].estimated_iterations > 1
           /\ ChildCmd(fs, baseline_path(b)) = Cmd(2, TRUE)
    /\ job[b].pc = "full" =>
           /\ job[b].estimated_iterations >= 1
           /\ ChildCmd(fs, baseline_path(b))
                  = Cmd(job[b].estimated_iterations + 1, TRUE)
           /\ job[b].baseline = CachegrindOutputRead(fs[baseline_path(b)].text).value
    /\ job[b].pc = "rename_baseline" =>
           /\ ChildCmd(fs, baseline_path(b))
                  = Cmd(job[b].estimated_iterations + 1, TRUE)
           /\ ChildCmd(fs, full_path(b)) = Cmd(job[b].estimated_iterations + 1, FALSE)

\* The steps of a job that spawn a child, within one process.
ChildrenStep(b) ==
    (mode = "bench" /\ mode' = "bench") =>
        /\ (job[b].pc = "calibrate" /\ job'[b].pc # "calibrate") =>
               /\ job'[b].pc \in {"baseline", "full", "fatal"}
               /\ job'[b].pc # "fatal" =>
                      /\ ChildCmd(fs', baseline_path(b)) = Cmd(2, TRUE)
                      /\ job'[b].calibration
                             = total_instructions(
                                   CachegrindOutputRead(fs'[baseline_path(b)].text).value.summary)
                      /\ job'[b].pc = "baseline" <=> job'[b].estimated_iterations > 1
                      /\ job'[b].pc = "full" <=> job'[b].estimated_iterations = 1
        /\ (job[b].pc = "baseline" /\ job'[b].pc # "baseline") =>
               /\ job'[b].pc \in {"full", "fatal"}
               /\ job'[b].estimated_iterations = job[b].estimated_iterations
        /\ (job[b].pc = "full" /\ job'[b].pc # "full") =>
               /\ job'[b].pc \in {"rename_baseline", "fatal"}
               /\ job'[b].estimated_iterations = job[b].estimated_iterations
               /\ fs'[baseline_path(b)] = fs[baseline_path(b)]
               /\ job'[b].pc = "rename_baseline" =>
                      job'[b].stats
                          = OutputSub(CachegrindOutputRead(fs'[full_path(b)].text).value,
                                      CachegrindOutputRead(fs'[baseline_path(b)].text).value)
        /\ fs'[baseline_path(b)] # fs[baseline_path(b)] =>
               job[b].pc \in {"calibrate", "baseline", "rename_baseline"}
        /\ fs'[full_path(b)] # fs[full_path(b)] => job[b].pc \in {"full", "rename_full"}
        /\ job'[b].pc = "calibrate" =>
               job[b].pc \in {"prev_stats", "backup_full", "calibrate"}

\* C26: the children of a measured benchmark are spawned in the order
\* calibration (2 iterations, baseline), a baseline child (estimated + 1
\* iterations) iff the estimate exceeds 1, a full child (estimated + 1
\* iterations, not baseline), each after the previous one succeeded and its
\* output was parsed; two children run when the estimate is 1 and three
\* otherwise, and the baseline output subtracted and the full output come
\* from children with the same iteration count.
C26_ChildrenInOrder ==
    /\ [](\A b \in Benches : ChildrenState(b))
    /\ [][\A b \in Benches : ChildrenStep(b)]_vars

\* C26 witness: in one process a benchmark with the estimate 1 whose
\* calibration output is the baseline of its full output of 2 iterations,
\* and a benchmark with a larger estimate after its three children.
C26_Witness ==
    /\ job[1].pc = "rename_baseline"
    /\ job[1].estimated_iterations = 1
    /\ ChildCmd(fs, baseline_path(1)) = Cmd(2, TRUE)
    /\ ChildCmd(fs, full_path(1)) = Cmd(2, FALSE)
    /\ job[2].pc = "rename_baseline"
    /\ job[2].estimated_iterations > 1
    /\ ChildCmd(fs, baseline_path(2)).iterations = ChildCmd(fs, full_path(2)).iterations

(* ------------- properties of the instrumented child -------------------- *)

InChild == calc # Nothing /\ "child" \in DOMAIN calc

\* The calls of the closure made so far by a child of n iterations: the
\* captures of the calls before the n-th are no-ops, the code after the
\* capture ran in calls before the n-th only, and an exited child entered
\* the closure n times, ran the body `bodies` times and exited at `via`.
Calls(c, n, last, bodies, via) ==
    /\ Len(c.captures) = c.i
    /\ c.i <= n
    /\ \A k \in 1..Len(c.captures) : c.captures[k] = (IF k < n THEN "NoOp" ELSE last)
    /\ Occurrences(c.trace, "drop") <= n - 1
    /\ c.i = n => c.pc \notin {"drop", "push"}
    /\ c.pc = "exited" =>
           /\ Len(c.captures) = n
           /\ Occurrences(c.trace, "body") = bodies
           /\ Occurrences(c.trace, "drop") = n - 1
           /\ c.via = via

\* C27: in a child of n >= 1 iterations whose closure starts its capture
\* once per call, the capture is NoOp for the calls 1..n-1; the baseline
\* child enters the closure n times, runs the body n-1 times and exits at
\* the capture start of the n-th call; the full child enters it n times,
\* runs the body n times and exits at the capture end of the n-th call; the
\* code after the capture never runs in the n-th call.
C27_ChildCalls ==
    (InChild /\ calc.closure = "measure" /\ calc.iterations >= 1) =>
        /\ Calls(calc.child[TRUE], calc.iterations, "TerminateOnStart",
                 calc.iterations - 1, "start")
        /\ Calls(calc.child[FALSE], calc.iterations, "TerminateOnEnd",
                 calc.iterations, "guard")

\* C27 witness: both children of four iterations have exited, the baseline
\* child after three bodies and the full child after four.
C27_Witness ==
    /\ InChild
    /\ calc.closure = "measure"
    /\ calc.iterations = 4
    /\ calc.child[TRUE].pc = "exited"
    /\ calc.child[FALSE].pc = "exited"
    /\ calc.child[TRUE].captures = <<"NoOp", "NoOp", "NoOp", "TerminateOnStart">>
    /\ calc.child[FALSE].captures = <<"NoOp", "NoOp", "NoOp", "TerminateOnEnd">>
    /\ Occurrences(calc.child[TRUE].trace, "body") = 3
    /\ Occurrences(calc.child[FALSE].trace, "body") = 4

\* The statement at which a child of n iterations exits: Capture::start of
\* the n-th call in a baseline child whose closure starts the capture, the
\* drop of the guard of the n-th call in a full child whose closure drops
\* it, the end of the loop otherwise.
ExitPath(is_baseline, n, closure) ==
    IF n >= 1 /\ is_baseline /\ closure \in {"measure", "leak"} THEN "start"
    ELSE IF n >= 1 /\ ~is_baseline /\ closure = "measure" THEN "guard"
    ELSE "loop"

\* A child is inside the loop of at most n calls, or has exited; it has
\* exited through the one path its closure gives, and the stop marker (of a
\* build with the instrumentation feature) was emitted with the exit and not
\* before.
Harness(c, is_baseline) ==
    /\ c.pc \in {"loop", "start", "body", "guard", "drop", "push", "exited"}
    /\ c.i <= calc.iterations
    /\ c.pc = "exited" =>
           /\ c.via = ExitPath(is_baseline, calc.iterations, calc.closure)
           /\ c.stop = IF calc.instrumentation THEN 1 ELSE 0
    /\ c.pc # "exited" => c.via = "none" /\ c.stop = 0

\* C29: once the matching benchmark is entered, the child never returns to
\* the caller: for every number of iterations from 0 and every closure
\* (without a panic) it ends in exit(0) through exactly one of the capture
\* start (TerminateOnStart), the end of the capture scope (TerminateOnEnd)
\* and the fall-through after the last iteration, and the stop marker is
\* emitted immediately before the exit on each path.
C29_ChildNeverReturns ==
    InChild => Harness(calc.child[TRUE], TRUE) /\ Harness(calc.child[FALSE], FALSE)

\* C29 witness: the children of zero iterations have exited after the loop
\* without a call of the closure, each with its stop marker.
C29_Witness ==
    /\ InChild
    /\ calc.iterations = 0
    /\ calc.instrumentation
    /\ \A is_baseline \in BOOLEAN :
           /\ calc.child[is_baseline].pc = "exited"
           /\ calc.child[is_baseline].via = "loop"
           /\ calc.child[is_baseline].stop = 1
           /\ calc.child[is_baseline].captures = <<>>

(* ------------- properties of the publication --------------------------- *)

\* The file at `path` was written by a child of the running process.
FromThisRun(f, path) == f[path] # NoFile /\ f[path].run = run

\* The benchmark b gets its `ok` in this step.
OkDelivered(b) ==
    /\ Len(events'[b]) > Len(events[b])
    /\ events'[b][Len(events[b]) + 1] = "ok"

\* The steps of the publication of benchmark b within one process.
PublishStep(b) ==
    (mode = "bench" /\ mode' = "bench") =>
        /\ fs'[final_baseline_path(b)] # fs[final_baseline_path(b)] =>
               /\ job[b].pc = "rename_baseline"
               /\ FromThisRun(fs, baseline_path(b))
               /\ FromThisRun(fs, full_path(b))
               /\ job[b].stats
                      = OutputSub(CachegrindOutputRead(fs[full_path(b)].text).value,
                                  CachegrindOutputRead(fs[baseline_path(b)].text).value)
               /\ fs'[final_baseline_path(b)] = fs[baseline_path(b)]
               /\ fs'[baseline_path(b)] = NoFile
               /\ fs'[final_full_path(b)] = fs[final_full_path(b)]
               /\ fs'[full_path(b)] = fs[full_path(b)]
        /\ fs'[final_full_path(b)] # fs[final_full_path(b)] =>
               /\ job[b].pc = "rename_full"
               /\ FromThisRun(fs, final_baseline_path(b))
               /\ fs[baseline_path(b)] = NoFile
               /\ fs'[final_full_path(b)] = fs[full_path(b)]
               /\ fs'[full_path(b)] = NoFile
               /\ events'[b] = events[b]
        /\ OkDelivered(b) =>
               /\ job[b].pc = "ok"
               /\ FromThisRun(fs, final_baseline_path(b))
               /\ FromThisRun(fs, final_full_path(b))
               /\ fs[baseline_path(b)] = NoFile /\ fs[full_path(b)] = NoFile
               /\ fs' = fs
               /\ output'[b] = BenchmarkOutput(job[b].stats, job[b].prev_stats)
               /\ options.save_baseline =>
                      /\ IdToString(ExecutorId(b)) \in DOMAIN saver_stats'
                      /\ saver_stats'[IdToString(ExecutorId(b))].summary
                             = job[b].stats.summary
               /\ ~options.save_baseline => saver_stats' = saver_stats
               /\ Len(regressed_benches') > Len(regressed_benches) =>
                      /\ options.baseline
                      /\ regressed_benches'[Len(regressed_benches')].id
                             = IdToString(ExecutorId(b))
        /\ (job[b].pc \in {"rename_baseline", "rename_full"} /\ job'[b].pc = "fatal") =>
               /\ fs' = fs
               /\ events'[b] = Append(events[b], "error")
               /\ output' = output /\ saver_stats' = saver_stats
        /\ job[b].pc = "fatal" =>
               /\ job'[b].pc = "fatal"
               /\ events'[b] = events[b]
               /\ output'[b] = output[b]
               /\ fs' = fs
        /\ (job'[b].pc = "ok" /\ job[b].pc # "ok") => job[b].pc = "rename_full"
        /\ (job'[b].pc = "rename_full" /\ job[b].pc # "rename_full") =>
               job[b].pc = "rename_baseline"
        /\ (job'[b].pc = "rename_baseline" /\ job[b].pc # "rename_baseline") =>
               job[b].pc = "full"

\* C28: the temporary baseline output is renamed to its final name strictly
\* before the temporary full output, both after the full child succeeded
\* and full - baseline was computed; the ok with the current and previous
\* stats is delivered to every configured reporter (printer, baseline saver,
\* regression checker) only after both renames; a failing rename is fatal,
\* and a fatal benchmark gets no ok.
C28_PublicationOrder ==
    /\ [](\A b \in Benches :
             job[b].pc = "fatal" => "ok" \notin Range(events[b]) /\ output[b] = Nothing)
    /\ [][\A b \in Benches : PublishStep(b)]_vars

\* C28 witness: in the second measuring process the rename of the full
\* output failed after the baseline output was renamed; the benchmark is
\* fatal without an ok and the final full output is the one of the first
\* process.
C28_Witness ==
    /\ mode = "bench"
    /\ run = 2
    /\ job[1].pc = "fatal"
    /\ job[1].error = <<"rename">>
    /\ events[1] = <<"start", "baseline", "error">>
    /\ FromThisRun(fs, final_baseline_path(1))
    /\ FromThisRun(fs, full_path(1))
    /\ fs[final_full_path(1)] # NoFile
    /\ fs[final_full_path(1)].run = 1

(* ------------- properties of the dispatch in the child ----------------- *)

Compared == calc # Nothing /\ "equal" \in DOMAIN calc

InChildMain == calc # Nothing /\ "registered" \in DOMAIN calc

\* The registrations whose id text is the marker argument.
Matching == {k \in DOMAIN calc.registered : IdText(calc.registered[k]) = calc.marker}

\* C30: in the child the comparison of a BenchmarkId with the marker
\* argument is true exactly when the text `name` or `name/args` of the id is
\* the argument, also for names and args with a `/`; the registrations
\* before the first one with that text are passed without a call, that one
\* is run, and none after it is reached because the process has exited; when
\* no registration has the text, none is run.
C30_ChildDispatch ==
    /\ Compared => (calc.equal <=> IdText(calc.id) = calc.other)
    /\ InChildMain =>
           /\ \A k \in DOMAIN calc.registered :
                  /\ k \in calc.invoked =>
                         /\ k \in Matching
                         /\ \A j \in 1..(k - 1) : j \notin Matching
                         /\ calc.pc = "exited"
                  /\ k < calc.at => k \notin Matching /\ k \notin calc.invoked
                  /\ k > calc.at => k \notin calc.invoked
           /\ calc.pc = "exited" => calc.invoked = {calc.at}
           /\ calc.pc = "returned" => Matching = {} /\ calc.invoked = {}
           /\ (calc.pc = "main" /\ calc.at > Len(calc.registered)) => Matching = {}

\* C30 witness: the second and the third registration have the text of the
\* marker argument, split differently into name and args; the first was
\* passed, the second was run and the process exited before the third.
C30_Witness ==
    /\ InChildMain
    /\ calc.pc = "exited"
    /\ calc.invoked = {2}
    /\ Matching = {2, 3}
    /\ calc.registered[2] # calc.registered[3]
    /\ calc.registered[2].has_args

(* ------------- properties of the semaphore ----------------------------- *)

\* C31: when every thread that holds a permit comes to release it, a thread
\* that waits in acquire_owned gets a permit, every thread finishes, and the
\* join over all of them returns, so that the process exits.
C31_WaitersGetPermits ==
    /\ \A b \in Benches : (job[b].pc = "waiting") ~> job[b].permit
    /\ \A b \in Benches : (job[b].pc = "acquire") ~> (job[b].pc = "done")
    /\ <>(exit # Nothing)

\* Two threads wait while a third has returned its permit and is about to
\* notify one of them.
C31_Witness ==
    /\ Cardinality(Waiters) = 2
    /\ \E b \in Benches : job[b].pc = "notify"

(* ------------- properties of the shutdown ------------------------------ *)

\* The measuring process ends in this step.
ProcessExits == mode = "bench" /\ mode' = None

\* The reporters got their final `ok` in this step: the process ends with a
\* success or with the list of regressed benchmarks.
FinalOk ==
    /\ ProcessExits
    /\ exit' = ExitSuccess \/ exit'.error = "benches have regressed"

\* The benchmarks of this process whose result is a regression.
RegressedJobs ==
    {b \in Benches : output[b] # Nothing /\ HasRegressed(regression_threshold, output[b])}

ShutdownStep ==
    /\ FinalOk =>
           /\ \A b \in Benches :
                  /\ job[b].pc = "done" /\ ~job[b].permit
                  /\ "ok" \in Range(events[b])
                  /\ output[b] # Nothing
           /\ permits = capacity
           /\ saved' # NoFile
           /\ DOMAIN saved'.stats = {IdToString(ExecutorId(b)) : b \in Benches}
           /\ \A b \in Benches :
                  saved'.stats[IdToString(ExecutorId(b))].summary = output[b].stats.summary
           /\ {regressed_benches[i].id : i \in DOMAIN regressed_benches}
                  = {IdToString(ExecutorId(b)) : b \in RegressedJobs}
           /\ exit'.list = regressed_benches
           /\ (exit' = ExitSuccess) = (RegressedJobs = {})
    /\ (ProcessExits /\ \E b \in Benches : job[b].pc = "panicked") =>
           /\ exit'.status = "failure"
           /\ exit'.error \in {"At least one of benchmarking jobs failed", "benchmark"}
           /\ saved' = NoFile

\* C32: in a measuring process with jobs, the final `ok` of the reporters,
\* which writes the named baseline and evaluates the regressions, comes only
\* after every spawned job has ended and delivered its `ok`, so that the
\* saved map and the list of regressions have the results of all jobs; when
\* a job panicked the process fails and there is no final `ok`.
C32_FinalOkAfterAllJobs == [][ShutdownStep]_vars

\* C32 witness: the process has ended with the regressed benchmarks in its
\* error and the results of all three benchmarks in the saved baseline.
C32_Witness ==
    /\ mode = None
    /\ exit # Nothing
    /\ exit.error = "benches have regressed"
    /\ Len(exit.list) >= 1
    /\ saved # NoFile
    /\ Cardinality(DOMAIN saved.stats) = NumBenches

\* The process has ended through the panic of a job thread.
C32_WitnessPanic ==
    /\ exit # Nothing
    /\ exit.error = "At least one of benchmarking jobs failed"

(* ------------- properties of the named baseline ------------------------ *)

\* The job of benchmark b has its previous stats.
PastPrevStats(b) ==
    job[b].pc \notin {"idle", "acquire", "waiting", "prev_stats", "backup_full", "fatal"}

BaselineState ==
    /\ named_baseline.reads <= 1
    /\ (mode = "bench" /\ options.baseline) =>
           \A b \in Benches :
               PastPrevStats(b) =>
                   /\ named_baseline.reads = 1
                   /\ named_baseline.cell \notin {Nothing, NoFile, Loading}
                   /\ job[b].prev_stats
                          = BaselineGet(named_baseline.cell.stats, ExecutorId(b))

BaselineStep ==
    (mode = "bench" /\ mode' = "bench" /\ options.baseline) =>
        /\ named_baseline.cell # Nothing => named_baseline'.cell = named_baseline.cell
        /\ \A b \in Benches :
               /\ fs'[old_baseline_path(b)] = fs[old_baseline_path(b)]
               /\ fs'[old_full_path(b)] = fs[old_full_path(b)]
               /\ (job[b].pc = "prev_stats" /\ job'[b].pc # "prev_stats") =>
                      IF job'[b].pc = "fatal"
                      THEN named_baseline.cell = Nothing /\ named_baseline.file = NoFile
                      ELSE /\ job'[b].pc = "calibrate"
                           /\ fs' = fs
                           /\ events' = events
                           /\ IdToString(ExecutorId(b)) \notin DOMAIN named_baseline'.cell.stats
                                  => job'[b].prev_stats = Nothing

\* C33: with `--baseline` the file is read at most once per process, also
\* when jobs ask for it at the same time; the previous stats of every
\* benchmark are the entry of its id in the one map that was loaded, absent
\* without an error when the map has no such entry, and the final files on
\* disk are neither taken for the previous stats nor backed up.
C33_NamedBaselineOnce == [](BaselineState) /\ [][BaselineStep]_vars

\* C33 witness: in a later process with `--baseline` two jobs run at the same
\* time after one read of a file that has been replaced since; one has its
\* previous stats from the loaded map, the other has none, its id not being
\* in the map, although its final files of the earlier process are on disk
\* (without a backup).
C33_Witness ==
    /\ mode = "bench" /\ options.baseline /\ run >= 2
    /\ named_baseline.reads = 1
    /\ named_baseline.cell = [stats |-> OtherBaseline]
    /\ named_baseline.file # named_baseline.cell
    /\ \E b, c \in Benches :
           /\ job[b].pc = "full" /\ job[c].pc = "full"
           /\ job[b].prev_stats = Nothing
           /\ job[c].prev_stats = OtherBaseline[<<"fib">>]
           /\ fs[final_baseline_path(b)] # NoFile /\ fs[final_full_path(b)] # NoFile
           /\ fs[old_baseline_path(b)] = NoFile

(* ------------- properties of the pairs of files ------------------------ *)

\* Both files are there and were written by the same measuring process.
SameRun(baseline, full) ==
    /\ fs[baseline] # NoFile /\ fs[full] # NoFile
    /\ fs[baseline].run = fs[full].run

\* The steps that derive stats from a pair of files of benchmark b: the
\* previous stats of a measurement, and the current and previous stats of
\* the print mode.
PairStep(b) ==
    /\ (mode = "bench" /\ job[b].pc = "backup_full" /\ job'[b].pc = "calibrate"
            /\ job'[b].prev_stats # Nothing) =>
           SameRun(final_baseline_path(b), final_full_path(b))
    /\ (mode = "print" /\ mode' = "print" /\ output[b] = Nothing /\ output'[b] # Nothing) =>
           /\ SameRun(final_baseline_path(b), final_full_path(b))
           /\ (~options.baseline /\ output'[b].prev_stats # Nothing) =>
                  SameRun(old_baseline_path(b), old_full_path(b))

\* C34: whenever a measurement or the print mode derives stats from a pair
\* of files on disk (the final pair, or the `.old` pair), both files of the
\* pair were produced by the same measuring process, after any sequence of
\* completed, failed and killed processes.
C34_PairsFromOneRun == [][\A b \in Benches : PairStep(b)]_vars

\* What holds: the pair that stats are derived from is a pair of complete
\* outputs, the baseline output of a baseline child and the full output of
\* a full child of the same benchmark, of one process or of two.
CompletePair(baseline, full) ==
    /\ fs[baseline] # NoFile /\ fs[full] # NoFile
    /\ CachegrindOutputRead(fs[baseline].text).ok
    /\ CachegrindOutputRead(fs[full].text).ok
    /\ fs[baseline].text.cmd.is_baseline
    /\ ~fs[full].text.cmd.is_baseline

C34_PairsOfCompleteOutputs ==
    [][\A b \in Benches :
          /\ (mode = "bench" /\ job[b].pc = "backup_full" /\ job'[b].pc = "calibrate"
                  /\ job'[b].prev_stats # Nothing) =>
                 CompletePair(final_baseline_path(b), final_full_path(b))
          /\ (mode = "print" /\ mode' = "print" /\ output[b] = Nothing
                  /\ output'[b] # Nothing) =>
                 /\ CompletePair(final_baseline_path(b), final_full_path(b))
                 /\ (~options.baseline /\ output'[b].prev_stats # Nothing) =>
                        CompletePair(old_baseline_path(b), old_full_path(b))]_vars

\* A measurement has taken its previous stats from the final baseline output
\* of one process and the final full output of an earlier one.
C34_MixedPair ==
    \E b \in Benches :
        /\ mode = "bench"
        /\ ~options.baseline
        /\ job[b].pc = "calibrate"
        /\ job[b].prev_stats # Nothing
        /\ fs[final_baseline_path(b)] # NoFile /\ fs[final_full_path(b)] # NoFile
        /\ ~SameRun(final_baseline_path(b), final_full_path(b))

(* ------------- properties of a fatal error among jobs ------------------ *)

\* The process ends in this step through the fatal error of a job.
FatalExit == mode = "bench" /\ mode' = None /\ exit' = fatal("benchmark", <<>>)

\* The baseline output of benchmark b has been renamed to its final name by
\* this process and its full output has not.
HalfPublished(b) ==
    /\ FromThisRun(fs, final_baseline_path(b))
    /\ ~FromThisRun(fs, final_full_path(b))

\* C35: with more than one job, the fatal error of one job, which ends the
\* process, leaves no other benchmark with its baseline output renamed to
\* the final name and its full output not.
C35_OthersConsistentAfterFatal ==
    [][(FatalExit /\ capacity > 1) =>
           \A b \in Benches : job[b].pc # "fatal" => ~HalfPublished(b)]_vars

\* What holds: with one job the benchmarks run one after the other, and a
\* fatal error finds every other benchmark before its first rename or after
\* its second.
C35_OthersConsistentWithOneJob ==
    [][(FatalExit /\ capacity = 1) =>
           \A b \in Benches : job[b].pc # "fatal" => ~HalfPublished(b)]_vars

\* With two jobs, one job is fatal while the other is between its two
\* renames; the fatal error ends the process in the next step.
C35_FatalBetweenRenames ==
    /\ mode = "bench" /\ capacity > 1
    /\ \E a, b \in Benches :
           /\ job[a].pc = "fatal"
           /\ job[b].pc = "rename_full"
           /\ HalfPublished(b)

(* ------------- properties of the estimate from a calibration ----------- *)

Calibrated == calc # Nothing /\ "estimate" \in DOMAIN calc

\* C36: for every calibration output that parses, one with no instructions
\* included, and every --warm-up and --max-iterations that the start-up
\* accepts, the estimate is computed: no division by zero, no empty range of
\* the clamp.
C36_EstimateNeverFails == Calibrated => calc.estimate.ok

\* What holds: the estimate fails exactly for a calibration output without
\* instructions and for an iteration cap of zero; otherwise it is within
\* 1..max_iterations.
C36_EstimateFailsOnZero ==
    Calibrated =>
        /\ calc.estimate.ok = (calc.total_instructions >= 1 /\ calc.max_iterations >= 1)
        /\ calc.estimate.ok => calc.estimate.value \in 1..calc.max_iterations

\* The summary of the calibration output has no instructions, the options
\* are positive, and the division panics.
C36_DivisionByZero ==
    /\ Calibrated
    /\ calc.total_instructions = 0
    /\ calc.warm_up_instructions >= 1 /\ calc.max_iterations >= 1
    /\ calc.estimate = Panic("attempt to divide by zero")

(* ------------- properties of the access summary of a difference -------- *)

Differenced == calc # Nothing /\ "access_summary" \in DOMAIN calc

TotalsOf(stats) == stats.instructions.total + stats.data_reads.total + stats.data_writes.total

L1MissesOf(stats) ==
    stats.instructions.l1_misses + stats.data_reads.l1_misses + stats.data_writes.l1_misses

L3MissesOf(stats) ==
    stats.instructions.l3_misses + stats.data_reads.l3_misses + stats.data_writes.l3_misses

\* Every counter of the left stats is at least the counter of the right.
PointAtLeast(p, q) ==
    p.total >= q.total /\ p.l1_misses >= q.l1_misses /\ p.l3_misses >= q.l3_misses

FullAtLeast(a, b) ==
    /\ PointAtLeast(a.instructions, b.instructions)
    /\ PointAtLeast(a.data_reads, b.data_reads)
    /\ PointAtLeast(a.data_writes, b.data_writes)

\* C37: the access summary of a saturating difference full - baseline of two
\* parsed outputs never underflows: the sum of its l1_misses is at least the
\* sum of its l3_misses, and the sum of its totals at least the sum of its
\* l1_misses.
C37_DifferenceNeverUnderflows ==
    Differenced =>
        /\ calc.access_summary # Overflow
        /\ L3MissesOf(calc.difference) <= L1MissesOf(calc.difference)
        /\ L1MissesOf(calc.difference) <= TotalsOf(calc.difference)

\* What holds: the summary underflows exactly when the sums of the
\* difference are out of order, and is the partition of the accesses of the
\* difference otherwise.
C37_UnderflowWhenUnordered ==
    Differenced =>
        /\ (calc.access_summary = Overflow)
               = (L1MissesOf(calc.difference) < L3MissesOf(calc.difference)
                      \/ TotalsOf(calc.difference) < L1MissesOf(calc.difference))
        /\ calc.access_summary # Overflow =>
               calc.access_summary.l1_hits + calc.access_summary.l3_hits
                   + calc.access_summary.ram_accesses = TotalsOf(calc.difference)

\* Two outputs with ordered counters, the full one at least the baseline in
\* every counter, so that no subtraction saturates, and a difference whose
\* summary underflows.
C37_UnderflowWithoutSaturation ==
    /\ Differenced
    /\ FullAtLeast(calc.full, calc.baseline)
    /\ calc.access_summary = Overflow

(* ------------- properties of the modes that do not measure ------------- *)

\* No runner of this process has started and no child has been announced.
NoChild ==
    \A b \in Benches : job[b] = IdleJob /\ "start" \notin Range(events[b])

\* What the print mode reports for benchmark b is read from the final files
\* and the `.old` files, or from the named baselines.
PrintReads(b) ==
    (mode \in {"print", "print_named"} /\ output[b] = Nothing /\ output'[b] # Nothing) =>
        /\ output'[b].stats =
               IF mode = "print"
               THEN OutputSub(load_output(final_full_path(b)).value,
                              load_output(final_baseline_path(b)).value)
               ELSE named_baseline.file.stats[IdToString(ExecutorId(b))]
        /\ output'[b].prev_stats =
               IF options.baseline THEN BaselineGet(NamedBaseline, ExecutorId(b))
               ELSE IF mode = "print_named" THEN Nothing
               ELSE IF load_output(old_baseline_path(b)).value = Nothing
                       \/ load_output(old_full_path(b)).value = Nothing
               THEN Nothing
               ELSE OutputSub(load_output(old_full_path(b)).value,
                              load_output(old_baseline_path(b)).value)

\* C38: in the Test, List and Print modes no child is spawned and no output
\* file (final, temporary or `.old`) is created, renamed, copied or changed;
\* the print mode reads the final and `.old` files or the named baseline.
C38_ReadOnlyModes ==
    /\ [](mode \in ReadOnlyModes => NoChild)
    /\ [][(mode \in ReadOnlyModes) => (fs' = fs)]_vars
    /\ [][\A b \in Benches : PrintReads(b)]_vars

\* C38 witness: the print mode has reported a benchmark with its previous
\* stats from the `.old` files while the temporary file of a killed
\* measurement is still in the directory.
C38_Witness ==
    /\ mode = "print"
    /\ ~options.baseline
    /\ \E b \in Benches :
           /\ output[b] # Nothing
           /\ output[b].prev_stats # Nothing
           /\ fs[baseline_path(b)] # NoFile
           /\ fs[old_full_path(b)] # NoFile

\* The List and Test modes have gone through a benchmark whose files of an
\* earlier measurement are in the directory.
C38_WitnessList ==
    /\ mode \in {"list", "test"}
    /\ \E b \in Benches : events[b] # <<>> /\ fs[final_full_path(b)] # NoFile

(* ------------- properties of the arguments of the child ---------------- *)

Parsed == calc # Nothing /\ "parsed" \in DOMAIN calc

\* The text is a decimal number, with or without a leading `+`.
IsDecimal(text) ==
    \E k \in 0..1 :
        /\ Len(text) > k
        /\ k = 1 => text[1] = "+"
        /\ \A i \in (k + 1)..Len(text) : \E d \in 1..10 : text[i] = DigitChars[d]

\* C39: the arguments that push_args produces parse, after the executable
\* name, to the same iterations, baseline flag (`+` baseline, `-` full) and
\* id; arguments whose first one after the executable is not the marker are
\* not those of a child; and the marker followed by fewer than three
\* arguments, by an iteration count that is no integer, or by a flag other
\* than `+` and `-` is an error.
C39_MarkerRoundTrip ==
    Parsed =>
        /\ "pushed" \in DOMAIN calc =>
               /\ calc.args[4] = (IF calc.pushed.is_baseline THEN <<"+">> ELSE <<"-">>)
               /\ calc.parsed = Ok(calc.pushed)
        /\ (Len(calc.args) < 2 \/ calc.args[2] # MARKER) => calc.parsed = Ok(Nothing)
        /\ (Len(calc.args) >= 2 /\ calc.args[2] = MARKER) =>
               /\ calc.parsed # Ok(Nothing)
               /\ Len(calc.args) < 5 => ~calc.parsed.ok
               /\ (Len(calc.args) >= 3 /\ ~IsDecimal(calc.args[3])) => ~calc.parsed.ok
               /\ (Len(calc.args) >= 4 /\ calc.args[4] \notin {<<"+">>, <<"-">>})
                      => ~calc.parsed.ok
               /\ (Len(calc.args) >= 5 /\ IsDecimal(calc.args[3])
                       /\ calc.args[4] \in {<<"+">>, <<"-">>}) =>
                      /\ calc.parsed.ok
                      /\ calc.parsed.value.is_baseline = (calc.args[4] = <<"+">>)
                      /\ calc.parsed.value.id = calc.args[5]

\* C39 witness: the arguments of the baseline child of fib with 123
\* iterations were pushed and parsed back.
C39_Witness ==
    /\ Parsed
    /\ "pushed" \in DOMAIN calc
    /\ calc.args = <<(<<"yab">>), MARKER, <<"1", "2", "3">>, <<"+">>, <<"fib">>>>
    /\ calc.parsed = Ok([iterations |-> 123, is_baseline |-> TRUE, id |-> <<"fib">>])

\* The marker is followed by a count and a flag only, which is an error.
C39_WitnessTooFew ==
    /\ Parsed
    /\ calc.args = <<(<<"yab">>), MARKER, <<"1", "2">>, <<"+">>>>
    /\ calc.parsed = ArgsError("TooFewArgs")

(* ------------- properties of the lines of an output file --------------- *)

LinesRead == calc # Nothing /\ "lines" \in DOMAIN calc

\* The index of the first line with the prefix, 0 if there is none.
FirstLine(prefix) ==
    LET at == {i \in 1..Len(calc.lines) : calc.lines[i].prefix = prefix} IN
    IF at = {} THEN 0 ELSE CHOOSE i \in at : \A j \in at : i <= j

\* The file has an events line and, after it, a summary line.
HasBothLines == 0 < FirstLine("events:") /\ FirstLine("events:") < FirstLine("summary:")

DeclaredEvents == calc.lines[FirstLine("events:")].tokens
SummaryTokens == calc.lines[FirstLine("summary:")].tokens
DeclaredSet == {DeclaredEvents[i] : i \in 1..Len(DeclaredEvents)}

\* The columns of the summary line that are named e, and the number in one.
ColumnsOf(e) == {i \in 1..Len(DeclaredEvents) : DeclaredEvents[i] = e}
NumberAt(i) == ParseU64(SummaryTokens[i]).value

\* The counter of full stats that belongs to the event.
CounterOf(full, e) ==
    CASE e = "Ir" -> full.instructions.total
      [] e = "I1mr" -> full.instructions.l1_misses
      [] e = "ILmr" -> full.instructions.l3_misses
      [] e = "Dr" -> full.data_reads.total
      [] e = "D1mr" -> full.data_reads.l1_misses
      [] e = "DLmr" -> full.data_reads.l3_misses
      [] e = "Dw" -> full.data_writes.total
      [] e = "D1mw" -> full.data_writes.l1_misses
      [] e = "DLmw" -> full.data_writes.l3_misses

NineSet == {NineEvents[i] : i \in 1..9}

\* C40: reading an output succeeds only if its summary line has as many
\* tokens as its events line; the summary read is Simple, with the number of
\* the Ir column, exactly if Ir is the only declared event; otherwise the
\* nine events must all be declared, or the reading fails, and the summary
\* read is Full with every counter taken from a column of its name, in
\* whatever order the columns are; and the lines after the first summary
\* line change nothing.
C40_ReadsNamedColumns ==
    LinesRead =>
        /\ calc.output.ok =>
               /\ HasBothLines
               /\ Len(SummaryTokens) = Len(DeclaredEvents)
               /\ (calc.output.value.summary.kind = "Simple") <=> (DeclaredSet = {"Ir"})
               /\ calc.output.value.summary.kind = "Simple" =>
                      /\ \E i \in ColumnsOf("Ir") :
                             calc.output.value.summary.instructions = NumberAt(i)
                      /\ DeclaredEvents = <<"Ir">> =>
                             calc.output.value.summary.instructions = NumberAt(1)
               /\ calc.output.value.summary.kind # "Simple" =>
                      /\ calc.output.value.summary.kind = "Full"
                      /\ NineSet \subseteq DeclaredSet
                      /\ \A e \in NineSet : \E i \in ColumnsOf(e) :
                             /\ CounterOf(calc.output.value.summary.full, e) = NumberAt(i)
                             /\ \A j \in ColumnsOf(e) : j <= i
        /\ (HasBothLines /\ DeclaredSet # {"Ir"} /\ ~(NineSet \subseteq DeclaredSet)) =>
               ~calc.output.ok
        /\ FirstLine("summary:") > 0 =>
               calc.output = ReadText(SubSeq(calc.lines, 1, FirstLine("summary:")))

\* C40 witness: the nine events are declared in the reverse of the
\* simulator's order, lines follow the summary line, and the reading gives
\* full stats.
C40_Witness ==
    /\ LinesRead
    /\ calc.output.ok
    /\ DeclaredEvents = Reverse(NineEvents)
    /\ FirstLine("summary:") < Len(calc.lines)
    /\ calc.output.value.summary.kind = "Full"
    /\ calc.output.value.summary.full.instructions.total = NumberAt(9)
    /\ DOMAIN calc.output.value.breakdown # {}

\* Only Ir is declared, a second summary line follows the first, and the
\* reading is simple.
C40_WitnessSimple ==
    /\ LinesRead
    /\ calc.output.ok
    /\ DeclaredEvents = <<"Ir">>
    /\ \E i \in (FirstLine("summary:") + 1)..Len(calc.lines) :
           calc.lines[i].prefix = "summary:"
    /\ calc.output.value.summary = Simple(NumberAt(1))

\* Eight of the nine events are declared with eight numbers, and the reading
\* fails.
C40_WitnessMissing ==
    /\ LinesRead
    /\ HasBothLines
    /\ DeclaredEvents = Tail(NineEvents)
    /\ Len(SummaryTokens) = 8
    /\ calc.output = ParseError("missing summary for event")


====
